---- MODULE Spec2Model ----
(***************************************************************************)
(* Model of the seeded problem generators and answer graders of            *)
(* sat-math/backend/app/generators.py.                                     *)
(*                                                                         *)
(* Text is a sequence of tokens.  A token is a string: every number that   *)
(* the code formats is spelled one character per token ("-", "1", "2"),    *)
(* and every literal chunk of an f-string is one token.  Answers and       *)
(* solution strings are spelled character by character only, so that the   *)
(* graders' parsing works on what str() produced.                          *)
(*                                                                         *)
(* A seed is identified with the stream of raw draws that                  *)
(* random.Random(seed) yields: a sequence of naturals.  The generators     *)
(* consume the stream in their fixed order of draws.                       *)
(***************************************************************************)
EXTENDS Integers, Sequences, FiniteSets, TLC

VARIABLES
    globalRng,  \* draws served by the module-level generator of random
    item,       \* the GeneratedItem of the last generate call, or None
    again,      \* the GeneratedItem of a second call with the same seed, or None
    answer,     \* the user_answer text of the last grade call
    selected,   \* the selected_index of the last multiple-choice grade call
    graded,     \* what the last grade call returned, or None
    aiCall,     \* the last validate_ai_payload call and its result, or None
    elabCall,   \* the last validate_elaboration_payload call and its result, or None
    ai,         \* the /generate_ai request in hand
    metrics,    \* app.state.guardrails_metrics
    loop,       \* the coefficient loop of a generate_linear_system_2x2 call
    quota       \* app.state._elab_quota and the /elaborate requests in flight

vars == <<globalRng, item, again, answer, selected, graded, aiCall, elabCall,
          ai, metrics, loop, quota>>

None == [none |-> TRUE]

(***************************************************************************)
(* Python arithmetic and str().                                            *)
(***************************************************************************)
Abs(n) == IF n < 0 THEN -n ELSE n

\* Python's // on integers with a positive divisor: floor division.
FloorDiv(n, d) == n \div d

RECURSIVE Pow(_, _)
Pow(b, e) == IF e = 0 THEN 1 ELSE b * Pow(b, e - 1)

RECURSIVE Gcd(_, _)
Gcd(m, n) == IF n = 0 THEN Abs(m) ELSE Gcd(n, m % n)

DigitChars == <<"0", "1", "2", "3", "4", "5", "6", "7", "8", "9">>

IsDigit(ch) == \E i \in 1..10 : DigitChars[i] = ch

DigitVal(ch) == (CHOOSE i \in 1..10 : DigitChars[i] = ch) - 1

RECURSIVE NatToStr(_)
NatToStr(n) ==
    IF n < 10 THEN <<DigitChars[n + 1]>>
    ELSE NatToStr(n \div 10) \o <<DigitChars[(n % 10) + 1]>>

\* str(n) for a Python int.
IntToStr(n) == IF n < 0 THEN <<"-">> \o NatToStr(-n) ELSE NatToStr(n)

\* f"{n:+}": the sign is always written.
SignedStr(n) == IF n < 0 THEN <<"-">> \o NatToStr(-n) ELSE <<"+">> \o NatToStr(n)

(***************************************************************************)
(* random.Random(seed): a generator-local stream object.  The module-level *)
(* generator of the random module (main.py draws request seeds from it) is *)
(* the variable globalRng: the number of draws it has served so far.       *)
(***************************************************************************)
\* A stream that depends on how far the module-level generator has advanced.
SharedRandom(stream) == [i \in DOMAIN stream |-> stream[i] + globalRng]

\* rng = random.Random(seed): the stream keyed by the seed, read from its start.
Random(stream) == stream

\* The i-th raw draw.  A stream of the model is the finite prefix that is
\* written out; past it the stream goes on with the draw 5.
Draw(rng, i) == IF i \in DOMAIN rng THEN rng[i] ELSE 5

\* rng.randint(lo, hi), the i-th draw of the stream.
randint(rng, i, lo, hi) == lo + (Draw(rng, i) % (hi - lo + 1))

\* rng.choice(seq), the i-th draw of the stream.
choice(rng, i, seq) == seq[1 + (Draw(rng, i) % Len(seq))]

Swap(seq, i, j) ==
    [k \in DOMAIN seq |-> IF k = i THEN seq[j] ELSE IF k = j THEN seq[i] ELSE seq[k]]

\* rng.shuffle(x) on a list of 4: for i = 3, 2, 1 swap x[i] with x[randbelow(i+1)]
\* (0-based); it consumes the draws i, i+1 and i+2 of the stream.
shuffle(rng, i, seq) ==
    LET s3 == Swap(seq, 4, 1 + (Draw(rng, i) % 4))
        s2 == Swap(s3, 3, 1 + (Draw(rng, i + 1) % 3))
    IN  Swap(s2, 2, 1 + (Draw(rng, i + 2) % 2))

GeneratedItem(domain, skill, format, seed, prompt, sol, steps, choices, ci, why, diagram) ==
    [domain |-> domain, skill |-> skill, format |-> format, seed |-> seed,
     prompt_latex |-> prompt, solution_str |-> sol, explanation_steps |-> steps,
     choices |-> choices, correct_index |-> ci, why_incorrect |-> why,
     diagram |-> diagram]

(***************************************************************************)
(* The generators.  seed.main is the stream of random.Random(seed) and     *)
(* seed.plus999 the stream of random.Random(seed + 999).                   *)
(***************************************************************************)
generate_linear_equation(seed) ==
    LET rng  == Random(seed.main)
        a    == randint(rng, 1, 2, 9)
        root == randint(rng, 2, -9, 9)
        b    == randint(rng, 3, -9, 9)
        c    == a * (root + b)
        prompt == <<"Solve for x: ">> \o IntToStr(a) \o <<"(x ">> \o SignedStr(b)
                    \o <<") = ">> \o IntToStr(c)
        steps == <<
            <<"Distribute: ">> \o IntToStr(a) \o <<"x ">> \o SignedStr(a * b)
                \o <<" = ">> \o IntToStr(c),
            <<"Subtract ">> \o SignedStr(a * b) \o <<" from both sides: ">>
                \o IntToStr(a) \o <<"x = ">> \o IntToStr(c - a * b),
            <<"Divide by ">> \o IntToStr(a) \o <<": x = ">>
                \o IntToStr(FloorDiv(c - a * b, a)) >>
    IN  GeneratedItem("Algebra", "linear_equation", "SPR", seed, prompt,
                      IntToStr(root), steps, None, None, None, None)

generate_two_step_equation(seed) ==
    LET rng  == Random(seed.main)
        a    == randint(rng, 1, 2, 9)
        root == randint(rng, 2, -9, 9)
        b    == randint(rng, 3, -9, 9)
        c    == a * root + b
        prompt == <<"Solve for x: ">> \o IntToStr(a) \o <<"x ">> \o SignedStr(b)
                    \o <<" = ">> \o IntToStr(c)
        steps == <<
            <<"Subtract ">> \o SignedStr(b) \o <<" from both sides: ">>
                \o IntToStr(a) \o <<"x = ">> \o IntToStr(c - b),
            <<"Divide by ">> \o IntToStr(a) \o <<": x = ">>
                \o IntToStr(FloorDiv(c - b, a)) >>
    IN  GeneratedItem("Algebra", "two_step_equation", "SPR", seed, prompt,
                      IntToStr(root), steps, None, None, None, None)

generate_proportion(seed) ==
    LET rng == Random(seed.main)
        b   == randint(rng, 1, 2, 9)
        c   == randint(rng, 2, 2, 9)
        k   == randint(rng, 3, 1, 9)
        a   == b * k
        x_val == FloorDiv(a * c, b)
        prompt == <<"Solve for x: ", "\\[\\frac{">> \o IntToStr(a) \o <<"}{">>
                    \o IntToStr(b) \o <<"} = ", "\\frac{x}{">> \o IntToStr(c)
                    \o <<"}\\]">>
        steps == <<
            <<"Cross-multiply: ">> \o IntToStr(a) \o <<" . ">> \o IntToStr(c)
                \o <<" = ">> \o IntToStr(b) \o <<" . x">>,
            <<"Compute: ">> \o IntToStr(a * c) \o <<" = ">> \o IntToStr(b) \o <<"x">>,
            <<"Divide both sides by ">> \o IntToStr(b) \o <<": x = ">>
                \o IntToStr(x_val) >>
    IN  GeneratedItem("PSD", "proportion", "SPR", seed, prompt,
                      IntToStr(x_val), steps, None, None, None, None)

\* Python's "n or dflt" on an int: 0 is falsy.
OrElse(n, dflt) == IF n = 0 THEN dflt ELSE n

\* The k-th pass (k = 0, 1, ...) of the "while True" loop of
\* generate_linear_system_2x2: four draws, kept when the determinant is not 0.
RECURSIVE ResampleCoefficients(_, _)
ResampleCoefficients(rng, k) ==
    LET a == OrElse(randint(rng, 3 + 4 * k, -5, 5), 1)
        b == OrElse(randint(rng, 4 + 4 * k, -5, 5), 2)
        c == OrElse(randint(rng, 5 + 4 * k, -5, 5), -2)
        d == OrElse(randint(rng, 6 + 4 * k, -5, 5), 3)
        det == a * d - b * c
    IN  IF det # 0
        THEN [a |-> a, b |-> b, c |-> c, d |-> d, det |-> det, passes |-> k + 1]
        ELSE ResampleCoefficients(rng, k + 1)

generate_linear_system_2x2(seed) ==
    LET rng == Random(seed.main)
        x0  == randint(rng, 1, -5, 5)
        y0  == randint(rng, 2, -5, 5)
        m   == ResampleCoefficients(rng, 0)
        e   == m.a * x0 + m.b * y0
        f   == m.c * x0 + m.d * y0
        prompt == <<"Solve the system for (x, y):\\n\\[\n", "\\begin{cases} ">>
                    \o IntToStr(m.a) \o <<"x ">> \o SignedStr(m.b) \o <<"y = ">>
                    \o IntToStr(e) \o <<" \\", " ">>
                    \o IntToStr(m.c) \o <<"x ">> \o SignedStr(m.d) \o <<"y = ">>
                    \o IntToStr(f) \o <<" \\end{cases}\n", "\\]">>
        steps == <<
            <<"Use elimination or Cramer's rule to solve.">>,
            <<"Determinant: ">> \o IntToStr(m.a) \o <<".">> \o IntToStr(m.d)
                \o <<" - ">> \o IntToStr(m.b) \o <<".">> \o IntToStr(m.c)
                \o <<" = ">> \o IntToStr(m.det),
            <<"Solution: x = ">> \o IntToStr(x0) \o <<", y = ">> \o IntToStr(y0) >>
    IN  GeneratedItem("Algebra", "linear_system_2x2", "SPR", seed, prompt,
                      IntToStr(x0) \o <<",">> \o IntToStr(y0), steps,
                      None, None, None, None)

Min(m, n) == IF m <= n THEN m ELSE n

Max(m, n) == IF m >= n THEN m ELSE n

generate_quadratic_roots(seed) ==
    LET rng == Random(seed.main)
        r1  == randint(rng, 1, -5, 5)
        r2  == randint(rng, 2, -5, 5)
        a   == choice(rng, 3, <<1, 1, 1, 2, 3>>)
        \* sp.expand(a*(x - r1)*(x - r2)) = a x^2 - a(r1 + r2) x + a r1 r2; the
        \* prompt renders sp.latex(sp.Eq(poly, 0)), written here by its coefficients.
        prompt == <<"Solve for x: ", "latex(Eq(">> \o IntToStr(a) \o <<" x^2 ">>
                    \o SignedStr(-(a * (r1 + r2))) \o <<" x ">>
                    \o SignedStr(a * r1 * r2) \o <<", 0))">>
        steps == <<
            <<"Set factors to zero: (x - ">> \o IntToStr(r1) \o <<") = 0 or (x - ">>
                \o IntToStr(r2) \o <<") = 0">>,
            <<"Therefore, x = ">> \o IntToStr(r1) \o <<" or x = ">> \o IntToStr(r2) >>
        sol == IntToStr(Min(r1, r2)) \o <<",">> \o IntToStr(Max(r1, r2))
    IN  GeneratedItem("Advanced", "quadratic_roots", "SPR", seed, prompt, sol, steps,
                      None, None, None, None)

\* A Python number: an int (den = 1, float = FALSE) or a float, kept as the
\* reduced fraction num/den it stands for.
PyInt(n) == [num |-> n, den |-> 1, float |-> FALSE]

PyFloat(n, d) == [num |-> n \div Gcd(n, d), den |-> d \div Gcd(n, d), float |-> TRUE]

\* b ** x0: an int for x0 >= 0, the float 1 / b^(-x0) for x0 < 0.
PyPow(b, x0) == IF x0 >= 0 THEN PyInt(Pow(b, x0)) ELSE PyFloat(1, Pow(b, -x0))

\* a * v for an int a.
PyMul(a, v) == IF v.float THEN PyFloat(a * v.num, v.den) ELSE PyInt(a * v.num)

\* v // a for an int a > 0: the floor, a float when v is one.
PyFloorDiv(v, a) ==
    [num |-> v.num \div (v.den * a), den |-> 1, float |-> v.float]

\* f"{v}": str of an int; repr of a float is its digits, written "n.0" for a
\* whole value and otherwise as the fraction the float stands for.
PyStr(v) ==
    IF ~v.float THEN IntToStr(v.num)
    ELSE IF v.den = 1 THEN IntToStr(v.num) \o <<".", "0">>
    ELSE <<"float(">> \o IntToStr(v.num) \o <<"/">> \o IntToStr(v.den) \o <<")">>

generate_exponential_solve(seed) ==
    LET rng == Random(seed.main)
        b   == randint(rng, 1, 2, 5)
        x0  == randint(rng, 2, -3, 3)
        a   == choice(rng, 3, <<1, 2, 3, 4>>)
        c   == PyMul(a, PyPow(b, x0))
        prompt == <<"Solve for x: ">> \o IntToStr(a) \o <<"\\cdot ">> \o IntToStr(b)
                    \o <<"^x = ">> \o PyStr(c)
        steps == <<
            <<"Divide both sides by ">> \o IntToStr(a) \o <<": ">> \o IntToStr(b)
                \o <<"^x = ">> \o PyStr(PyFloorDiv(c, a)),
            <<"Take log base ">> \o IntToStr(b) \o <<": x = \\log_{">> \o IntToStr(b)
                \o <<"}(">> \o PyStr(PyFloorDiv(c, a)) \o <<") = ">> \o IntToStr(x0) >>
    IN  GeneratedItem("Advanced", "exponential_solve", "SPR", seed, prompt,
                      IntToStr(x0), steps, None, None, None, None)

\* A table with an entry that is no Pythagorean triple.
TRIPLES_with_non_triple ==
    << <<3, 4, 5>>, <<5, 12, 13>>, <<7, 24, 26>>, <<8, 15, 17>>, <<9, 12, 15>> >>

TRIPLES == << <<3, 4, 5>>, <<5, 12, 13>>, <<7, 24, 25>>, <<8, 15, 17>>, <<9, 12, 15>> >>

generate_pythagorean_hypotenuse(seed) ==
    LET rng  == Random(seed.main)
        t    == choice(rng, 1, TRIPLES)
        k    == randint(rng, 2, 1, 5)
        leg1 == t[1] * k
        leg2 == t[2] * k
        hyp  == t[3] * k
        prompt == <<"\\text{In a right triangle with legs ">> \o IntToStr(leg1)
                    \o <<" and ">> \o IntToStr(leg2) \o <<", find the hypotenuse.}">>
        steps == <<
            <<"Use a^2 + b^2 = c^2: ">> \o IntToStr(leg1) \o <<"^2 + ">>
                \o IntToStr(leg2) \o <<"^2 = c^2">>,
            <<"Compute: ">> \o IntToStr(leg1 * leg1) \o <<" + ">>
                \o IntToStr(leg2 * leg2) \o <<" = ">>
                \o IntToStr(leg1 * leg1 + leg2 * leg2) \o <<" = c^2">>,
            <<"Take square root: c = ">> \o IntToStr(hyp) >>
        diagram == [type |-> "right_triangle", a |-> leg1, b |-> leg2, c |-> hyp,
                    labels |-> [a |-> IntToStr(leg1), b |-> IntToStr(leg2),
                                c |-> <<"?">>]]
    IN  GeneratedItem("Geometry", "pythagorean_hypotenuse", "SPR", seed, prompt,
                      IntToStr(hyp), steps, None, None, None, diagram)

generate_pythagorean_leg(seed) ==
    LET rng  == Random(seed.main)
        t    == choice(rng, 1, TRIPLES)
        k    == randint(rng, 2, 1, 5)
        leg_known == t[1] * k
        hyp       == t[3] * k
        other_leg == t[2] * k
        prompt == <<"\\text{In a right triangle, the hypotenuse is ">>
                    \o IntToStr(hyp) \o <<" and one leg is ">> \o IntToStr(leg_known)
                    \o <<". Find the other leg.}">>
        steps == <<
            <<"Use c^2 - a^2 = b^2: ">> \o IntToStr(hyp) \o <<"^2 - ">>
                \o IntToStr(leg_known) \o <<"^2 = b^2">>,
            <<"Compute: ">> \o IntToStr(hyp * hyp) \o <<" - ">>
                \o IntToStr(leg_known * leg_known) \o <<" = ">>
                \o IntToStr(hyp * hyp - leg_known * leg_known) \o <<" = b^2">>,
            <<"Take square root: b = ">> \o IntToStr(other_leg) >>
        diagram == [type |-> "right_triangle", a |-> leg_known, b |-> other_leg,
                    c |-> hyp,
                    labels |-> [a |-> IntToStr(leg_known), b |-> <<"?">>,
                                c |-> IntToStr(hyp)]]
    IN  GeneratedItem("Geometry", "pythagorean_leg", "SPR", seed, prompt,
                      IntToStr(other_leg), steps, None, None, None, diagram)

(***************************************************************************)
(* Parsing of answer strings (character sequences).                        *)
(***************************************************************************)
RECURSIVE LStrip(_)
LStrip(s) == IF s # << >> /\ Head(s) = " " THEN LStrip(Tail(s)) ELSE s

RECURSIVE RStrip(_)
RStrip(s) ==
    IF s # << >> /\ s[Len(s)] = " " THEN RStrip(SubSeq(s, 1, Len(s) - 1)) ELSE s

\* str.strip()
Strip(s) == RStrip(LStrip(s))

\* str.replace(ch, "")
Remove(s, ch) == SelectSeq(s, LAMBDA x : x # ch)

Contains(s, ch) == \E i \in DOMAIN s : s[i] = ch

\* str.split(sep): the pieces between the separators, empty pieces kept.
RECURSIVE Split(_, _)
Split(s, sep) ==
    IF ~Contains(s, sep) THEN <<s>>
    ELSE LET i == CHOOSE k \in DOMAIN s : s[k] = sep /\ \A j \in 1..(k - 1) : s[j] # sep
         IN  <<SubSeq(s, 1, i - 1)>> \o Split(SubSeq(s, i + 1, Len(s)), sep)

\* str.split(): the pieces between runs of whitespace, no empty piece.
SplitWhitespace(s) == SelectSeq(Split(s, " "), LAMBDA part : part # << >>)

IsDigits(s) == s # << >> /\ \A i \in DOMAIN s : IsDigit(s[i])

IsLetters(s) ==
    s # << >> /\ \A i \in DOMAIN s : s[i] \in {"a", "b", "c", "x", "y", "z"}

RECURSIVE DigitsVal(_)
DigitsVal(s) ==
    IF s = << >> THEN 0 ELSE 10 * DigitsVal(SubSeq(s, 1, Len(s) - 1)) + DigitVal(s[Len(s)])

\* What a parse gives: a raised exception, a number, a free symbol, or a form
\* outside the grammar written out below.  A number is num/den in lowest
\* terms; float marks sympy's Float (a decimal literal).  A Float with more
\* than 4 significant fractional digits is kept as its integer part num and
\* its fractional digits frac (kind "longfloat").
Value(kind, n, d, isFloat, frac, name) ==
    [kind |-> kind, num |-> n, den |-> d, float |-> isFloat, frac |-> frac,
     name |-> name]

Raised == Value("raise", 0, 1, FALSE, << >>, << >>)

Number(n, d) ==
    LET g == Gcd(n, d)
    IN  Value("number", n \div g, d \div g, FALSE, << >>, << >>)

Float(n, d) == [Number(n, d) EXCEPT !.float = TRUE]

LongFloat(ip, frac) == Value("longfloat", ip, 1, TRUE, frac, << >>)

Symbol(s) == Value("symbol", 0, 1, FALSE, << >>, s)

Unmodelled == Value("unmodelled", 0, 1, FALSE, << >>, << >>)

\* sympy's Tuple, kept as its text.
Tuple(s) == Value("tuple", 0, 1, FALSE, << >>, s)

RECURSIVE StripZeros(_)
StripZeros(s) ==
    IF s # << >> /\ s[Len(s)] = "0" THEN StripZeros(SubSeq(s, 1, Len(s) - 1)) ELSE s

\* The sign and the rest of a token: "-12" is (-1, "12"), "+12" and "12" are (1, "12").
SignOf(s) == IF s # << >> /\ Head(s) = "-" THEN -1 ELSE 1

Unsigned(s) == IF s # << >> /\ Head(s) \in {"-", "+"} THEN Tail(s) ELSE s

\* sp.Integer(text): text.replace(" ", "") then int(text); anything but an
\* optional sign and digits raises.
SpInteger(s) ==
    LET t == Remove(s, " ")
    IN  IF IsDigits(Unsigned(t)) THEN Number(SignOf(t) * DigitsVal(Unsigned(t)), 1)
        ELSE Raised

\* "(...)" without its parentheses.
Unparenthesised(s) ==
    IF Len(s) >= 2 /\ Head(s) = "(" /\ s[Len(s)] = ")" THEN SubSeq(s, 2, Len(s) - 1) ELSE s

\* Integers separated by commas: "1, 2", "1,2,3".
IsNumberList(s) ==
    \A i \in DOMAIN Split(s, ",") : IsDigits(Unsigned(Strip(Split(s, ",")[i])))

\* sp.sympify(text) on: integers "12", "-12"; decimals "1.5" (a Float of as many
\* digits as are written); quotients "3/4"
\* (a zero divisor gives sympy's zoo, which is no number); a text that ends
\* with "/" (SympifyError); integers separated by commas, in parentheses or
\* not (a Tuple); names "abc" (a free Symbol); the empty text (SympifyError).
sympify(s) ==
    LET t    == Strip(s)
        body == Unsigned(t)
        sg   == SignOf(t)
    IN  IF t = << >> THEN Raised
        ELSE IF IsDigits(body) THEN Number(sg * DigitsVal(body), 1)
        ELSE IF Contains(body, ".") /\ Len(Split(body, ".")) = 2
                /\ IsDigits(Split(body, ".")[1]) /\ IsDigits(Split(body, ".")[2])
            THEN LET ip == Split(body, ".")[1]
                     fp == StripZeros(Split(body, ".")[2])
                 IN  IF Len(fp) <= 4
                     THEN Float(sg * (DigitsVal(ip) * Pow(10, Len(fp)) + DigitsVal(fp)),
                                Pow(10, Len(fp)))
                     ELSE LongFloat(sg * DigitsVal(ip), fp)
        ELSE IF Contains(body, "/") /\ Len(Split(body, "/")) = 2
                /\ IsDigits(Split(body, "/")[1]) /\ IsDigits(Split(body, "/")[2])
            THEN LET n == DigitsVal(Split(body, "/")[1])
                     d == DigitsVal(Split(body, "/")[2])
                 IN  IF d = 0 THEN Symbol(<<"zoo">>) ELSE Number(sg * n, d)
        ELSE IF t[Len(t)] = "/" THEN Raised
        ELSE IF Contains(t, ",") /\ IsNumberList(Unparenthesised(t)) THEN Tuple(t)
        ELSE IF IsLetters(t) THEN Symbol(t)
        ELSE Unmodelled

\* sp.nsimplify(expr): "find a simple representation for a number".  With no
\* tolerance given it takes 10^-15 (the precision of a default Float, the most
\* it takes): a Float becomes the simple rational within that distance of it.
\* A short decimal becomes its exact value (3.0 becomes 3, 3.5 becomes 7/2); a
\* long decimal whose first 15 fractional digits are 0 becomes its integer
\* part.  A free symbol stays as it is, and so does an Integer or Rational.
nsimplify(v) ==
    IF v.kind = "number" THEN Number(v.num, v.den)
    ELSE IF v.kind = "longfloat"
    THEN IF Len(v.frac) > 15 /\ \A i \in 1..15 : v.frac[i] = "0"
         THEN Number(v.num, 1)
         ELSE Unmodelled
    ELSE v

(***************************************************************************)
(* The graders.  Each returns (correct, solution_str, explanation_steps).  *)
(***************************************************************************)
GradeResult(correct, it) ==
    [correct |-> correct, solution_str |-> it.solution_str,
     explanation_steps |-> it.explanation_steps]

\* try: nsimplify(user) == nsimplify(sympify(solution_str)); except: False
NumericEqual(user_expr, solution_str) ==
    /\ user_expr.kind # "raise"
    /\ nsimplify(user_expr) = nsimplify(sympify(solution_str))

grade_linear_equation(seed, user_answer) ==
    LET it == generate_linear_equation(seed)
    IN  GradeResult(NumericEqual(sympify(user_answer), it.solution_str), it)

grade_two_step_equation(seed, user_answer) ==
    LET it == generate_two_step_equation(seed)
    IN  GradeResult(NumericEqual(sympify(user_answer), it.solution_str), it)

grade_proportion(seed, user_answer) ==
    LET it == generate_proportion(seed)
    IN  GradeResult(NumericEqual(sympify(user_answer), it.solution_str), it)

grade_exponential_solve(seed, user_answer) ==
    LET it == generate_exponential_solve(seed)
    IN  GradeResult(NumericEqual(sympify(user_answer), it.solution_str), it)

grade_pythagorean_hypotenuse(seed, user_answer) ==
    LET it == generate_pythagorean_hypotenuse(seed)
    IN  GradeResult(NumericEqual(sympify(user_answer), it.solution_str), it)

grade_pythagorean_leg(seed, user_answer) ==
    LET it == generate_pythagorean_leg(seed)
    IN  GradeResult(NumericEqual(sympify(user_answer), it.solution_str), it)

\* Split on "," only: no whitespace-separated form.
parse_pair_comma_only(ans) ==
    LET s     == Remove(Remove(Strip(ans), "("), ")")
        parts == Split(s, ",")
    IN  IF Len(parts) # 2 THEN <<Raised>>
        ELSE <<SpInteger(parts[1]), SpInteger(parts[2])>>

\* _parse_pair: strip, drop parentheses, split on "," if there is one and on
\* whitespace otherwise; exactly two parts, each read by sp.Integer.
parse_pair(ans) ==
    LET s     == Remove(Remove(Strip(ans), "("), ")")
        parts == IF Contains(s, ",") THEN Split(s, ",") ELSE SplitWhitespace(s)
    IN  IF Len(parts) # 2 THEN <<Raised>>
        ELSE <<SpInteger(parts[1]), SpInteger(parts[2])>>

PairRaised(p) == \E i \in DOMAIN p : p[i].kind = "raise"

\* The two components compared crosswise.
grade_linear_system_2x2_crossed(seed, user_answer) ==
    LET it == generate_linear_system_2x2(seed)
        u  == parse_pair(user_answer)
        sl == parse_pair(it.solution_str)
        is_equal == /\ ~PairRaised(u)
                    /\ ~PairRaised(sl)
                    /\ u[1] = sl[2]
                    /\ u[2] = sl[1]
    IN  GradeResult(is_equal, it)

grade_linear_system_2x2(seed, user_answer) ==
    LET it == generate_linear_system_2x2(seed)
        u  == parse_pair(user_answer)
        sl == parse_pair(it.solution_str)
        is_equal == /\ ~PairRaised(u)
                    /\ ~PairRaised(sl)
                    /\ u[1] = sl[1]
                    /\ u[2] = sl[2]
    IN  GradeResult(is_equal, it)

\* "fewer than two parts" in place of "not exactly two parts".
parse_two_numbers_any_at_least_two(ans) ==
    LET s     == Remove(Remove(Strip(ans), "("), ")")
        split == IF Contains(s, ",") THEN Split(s, ",") ELSE SplitWhitespace(s)
        parts == SelectSeq(split, LAMBDA part : part # << >>)
    IN  IF Len(parts) < 2 THEN <<Raised>>
        ELSE <<nsimplify(sympify(parts[1])), nsimplify(sympify(parts[2]))>>

\* _parse_two_numbers_any: as _parse_pair, empty parts dropped, each part read
\* by sp.nsimplify.
parse_two_numbers_any(ans) ==
    LET s     == Remove(Remove(Strip(ans), "("), ")")
        split == IF Contains(s, ",") THEN Split(s, ",") ELSE SplitWhitespace(s)
        parts == SelectSeq(split, LAMBDA part : part # << >>)
    IN  IF Len(parts) # 2 THEN <<Raised>>
        ELSE <<nsimplify(sympify(parts[1])), nsimplify(sympify(parts[2]))>>

grade_quadratic_roots(seed, user_answer) ==
    LET it == generate_quadratic_roots(seed)
        u  == parse_two_numbers_any(user_answer)
        sl == parse_two_numbers_any(it.solution_str)
        is_equal == /\ ~PairRaised(u)
                    /\ ~PairRaised(sl)
                    /\ {nsimplify(u[1]), nsimplify(u[2])}
                         = {nsimplify(sl[1]), nsimplify(sl[2])}
    IN  GradeResult(is_equal, it)

(***************************************************************************)
(* The multiple-choice variant of linear_equation.                         *)
(***************************************************************************)
WhyCorrect == <<"Correct - solves the equation after proper distribution/isolation.">>

WhySign == <<"Sign error when moving terms across the equals sign.">>

WhySlip == <<"Arithmetic slip (off-by-one/two) during add/subtract step.">>

WhyDivision == <<"Stopped early or misapplied division step.">>

\* list.index(x): the 0-based position of the first occurrence.
IndexOf(seq, x) == (CHOOSE i \in DOMAIN seq : seq[i] = x /\ \A j \in 1..(i - 1) : seq[j] # x) - 1

\* The distractors and the shuffled options around the root sol_val, drawn
\* from rng = random.Random(seed + 999).
MCOptions(sol_val, rng) ==
    LET d1 == sol_val + choice(rng, 1, <<-2, -1, 1, 2>>)
        d2 == sol_val * (-1)
        d3 == sol_val + choice(rng, 2, <<3, -3>>)
    IN  [sol_val |-> sol_val, d1 |-> d1, d2 |-> d2, d3 |-> d3,
         options |-> shuffle(rng, 3, <<sol_val, d1, d2, d3>>)]

Choices(o) == [i \in DOMAIN o.options |-> IntToStr(o.options[i])]

WhyMap(o) ==
    [i \in DOMAIN o.options |->
        IF o.options[i] = o.sol_val THEN WhyCorrect
        ELSE IF o.options[i] = o.d2 THEN WhySign
        ELSE IF o.options[i] = o.d1 THEN WhySlip
        ELSE WhyDivision]

\* correct_index taken before the shuffle.
MCItem_index_before_shuffle(base, o) ==
    GeneratedItem(base.domain, "linear_equation_mc", "MC", base.seed,
                  base.prompt_latex, IntToStr(o.sol_val), base.explanation_steps,
                  Choices(o), IndexOf(<<o.sol_val, o.d1, o.d2, o.d3>>, o.sol_val),
                  WhyMap(o), None)

\* The item built from the base item and the options.
MCItem(base, o) ==
    GeneratedItem(base.domain, "linear_equation_mc", "MC", base.seed,
                  base.prompt_latex, IntToStr(o.sol_val), base.explanation_steps,
                  Choices(o), IndexOf(o.options, o.sol_val), WhyMap(o), None)

\* sol_val = int(sp.nsimplify(base.solution_str))
BaseRoot(base) == nsimplify(sympify(base.solution_str)).num

\* The body of generate_linear_equation_mc once base and rng are built.
MCFromBase(base, rng) == MCItem(base, MCOptions(BaseRoot(base), rng))

generate_linear_equation_mc(seed) ==
    MCFromBase(generate_linear_equation(seed), Random(seed.plus999))

NoChoice == <<"No choice selected">>

\* A selected_index argument: Python's None, or an int (0-based).
NoIndex == [isNone |-> TRUE, val |-> 0]

Index(i) == [isNone |-> FALSE, val |-> i]

MCGradeResult(correct, it, why) ==
    [correct |-> correct, solution_str |-> it.solution_str,
     explanation_steps |-> it.explanation_steps, why_selected |-> why]

\* No "selected_index < 0" test: a negative Python index counts from the end.
GradeSelection_no_negative_test(it, selected_index) ==
    LET i == IF selected_index.val < 0
             THEN Len(it.why_incorrect) + selected_index.val + 1
             ELSE selected_index.val + 1
    IN  IF \/ selected_index.isNone
           \/ selected_index.val >= Len(it.choices)
           \/ i < 1
        THEN MCGradeResult(FALSE, it, NoChoice)
        ELSE MCGradeResult(selected_index.val = OrElse(it.correct_index, -1), it,
                           it.why_incorrect[i])

\* The body of grade_linear_equation_mc once the item is regenerated.
GradeSelection(it, selected_index) ==
    IF \/ selected_index.isNone
       \/ selected_index.val < 0
       \/ selected_index.val >= Len(it.choices)
    THEN MCGradeResult(FALSE, it, NoChoice)
    ELSE MCGradeResult(selected_index.val = OrElse(it.correct_index, -1), it,
                       it.why_incorrect[selected_index.val + 1])

grade_linear_equation_mc(seed, selected_index) ==
    GradeSelection(generate_linear_equation_mc(seed), selected_index)

(***************************************************************************)
(* The seeds of the model: the raw draws a generator consumes.             *)
(***************************************************************************)
MaxPasses == 2

MaxGlobalDraws == 1

MaxOff == 1

MaxDen == 2

Seed(main, plus999) == [main |-> main, plus999 |-> plus999]

Triples(A, B, C) == {<<a, b, c>> : a \in A, b \in B, c \in C}

\* Raw draws of the coefficient loop that the model explores: 3 is the
\* value -2 and 5 the value 0, which "or" replaces by the default.
CoefDraws == {3, 5}

Quads == {<<a, b, c, d>> : a \in CoefDraws, b \in CoefDraws, c \in CoefDraws, d \in CoefDraws}

QuadAccepted(q) == ResampleCoefficients(<<0, 0>> \o q, 0).passes = 1

\* n rejected quadruples in a row, as one stream.
RECURSIVE RejectedRuns(_)
RejectedRuns(n) ==
    IF n = 0 THEN {<< >>}
    ELSE {r \o q : r \in RejectedRuns(n - 1), q \in {z \in Quads : ~QuadAccepted(z)}}

\* Streams of generate_linear_system_2x2: x0, y0, then at most MaxPasses
\* passes of the loop, the last one accepted.
SystemStreams ==
    {<<x, y>> \o r \o q :
        x \in 0..10, y \in {0, 4, 5, 10},
        r \in UNION {RejectedRuns(n) : n \in 0..(MaxPasses - 1)},
        q \in {z \in Quads : QuadAccepted(z)}}

\* Raw draws of the base item that the multiple-choice model explores: one a
\* and one b; the root has its full range.
MCBaseStreams == Triples({3}, 0..18, {2})

MCStreams ==
    {<<i1, i3, j3, j2, j1>> : i1 \in 0..3, i3 \in 0..1, j3 \in 0..3, j2 \in 0..2, j1 \in 0..1}

SPRSkills ==
    {"linear_equation", "two_step_equation", "proportion", "linear_system_2x2",
     "quadratic_roots", "exponential_solve", "pythagorean_hypotenuse",
     "pythagorean_leg"}

Skills == SPRSkills \cup {"linear_equation_mc"}

Seeds(skill) ==
    CASE skill = "linear_equation"    -> {Seed(m, << >>) : m \in Triples(0..7, 0..18, {0, 9, 18})}
      [] skill = "two_step_equation"  -> {Seed(m, << >>) : m \in Triples(0..7, 0..18, {0, 9, 18})}
      [] skill = "proportion"         -> {Seed(m, << >>) : m \in Triples(0..7, 0..7, 0..8)}
      [] skill = "linear_system_2x2"  -> {Seed(m, << >>) : m \in SystemStreams}
      [] skill = "quadratic_roots"    -> {Seed(m, << >>) : m \in Triples(0..10, 0..10, 0..4)}
      [] skill = "exponential_solve"  -> {Seed(m, << >>) : m \in Triples(0..3, 0..6, 0..3)}
      [] skill = "pythagorean_hypotenuse" -> {Seed(<<t, k>>, << >>) : t \in 0..4, k \in 0..4}
      [] skill = "pythagorean_leg"    -> {Seed(<<t, k>>, << >>) : t \in 0..4, k \in 0..4}
      [] skill = "linear_equation_mc" -> {Seed(m, p) : m \in MCBaseStreams, p \in MCStreams}

(***************************************************************************)
(* Dispatch on the skill, as the callers of the generators do.             *)
(***************************************************************************)
Generate(skill, seed) ==
    CASE skill = "linear_equation"    -> generate_linear_equation(seed)
      [] skill = "two_step_equation"  -> generate_two_step_equation(seed)
      [] skill = "proportion"         -> generate_proportion(seed)
      [] skill = "linear_system_2x2"  -> generate_linear_system_2x2(seed)
      [] skill = "linear_equation_mc" -> generate_linear_equation_mc(seed)
      [] skill = "quadratic_roots"    -> generate_quadratic_roots(seed)
      [] skill = "exponential_solve"  -> generate_exponential_solve(seed)
      [] skill = "pythagorean_hypotenuse" -> generate_pythagorean_hypotenuse(seed)
      [] skill = "pythagorean_leg"    -> generate_pythagorean_leg(seed)

Grade(skill, seed, user_answer) ==
    CASE skill = "linear_equation"    -> grade_linear_equation(seed, user_answer)
      [] skill = "two_step_equation"  -> grade_two_step_equation(seed, user_answer)
      [] skill = "proportion"         -> grade_proportion(seed, user_answer)
      [] skill = "linear_system_2x2"  -> grade_linear_system_2x2(seed, user_answer)
      [] skill = "quadratic_roots"    -> grade_quadratic_roots(seed, user_answer)
      [] skill = "exponential_solve"  -> grade_exponential_solve(seed, user_answer)
      [] skill = "pythagorean_hypotenuse" -> grade_pythagorean_hypotenuse(seed, user_answer)
      [] skill = "pythagorean_leg"    -> grade_pythagorean_leg(seed, user_answer)

(***************************************************************************)
(* The user answers of the model, built around the canonical answer.       *)
(***************************************************************************)
Garbage == {<<"a", "b", "c">>, << >>, <<" ">>}

\* n.00...01 with 18 zeros: a decimal that differs from n by 10^-19.
NearlyStr(n) == IntToStr(n) \o <<".">> \o [i \in 1..18 |-> "0"] \o <<"1">>

\* Spellings of numbers near the canonical integer n: integers n - MaxOff ..
\* n + MaxOff, the decimals n.0 and n.5, the quotients (q n)/q and (q n + 1)/q
\* for q in 2..MaxDen, n with blanks around it, and n.00...01.
NumberAnswers(n) ==
    {IntToStr(n + k) : k \in (-MaxOff)..MaxOff}
    \cup {IntToStr(n) \o <<".", d>> : d \in {"0", "5"}}
    \cup {IntToStr(q * n + r) \o <<"/">> \o IntToStr(q) : q \in 2..MaxDen, r \in {0, 1}}
    \cup {<<" ">> \o IntToStr(n) \o <<" ">>, NearlyStr(n)}

\* Spellings of pairs around the canonical pair (x, y).
PairAnswers(x, y) ==
    LET X == IntToStr(x)
        Y == IntToStr(y)
    IN  {X \o <<",">> \o Y,
         Y \o <<",">> \o X,
         <<"(">> \o X \o <<",">> \o Y \o <<")">>,
         X \o <<" ">> \o Y,
         X \o <<",">> \o IntToStr(y + 1),
         X \o <<",">> \o X,
         Y \o <<",">> \o Y,
         X \o <<".", "0", ",">> \o Y,
         NearlyStr(x) \o <<",">> \o Y,
         X,
         X \o <<",">> \o Y \o <<",">> \o X}

\* The canonical pair of a pair skill, read back from the draws.
CanonicalPair(it) ==
    LET p == Split(it.solution_str, ",")
    IN  <<SpInteger(p[1]).num, SpInteger(p[2]).num>>

Answers(it) ==
    IF it.skill \in {"linear_system_2x2", "quadratic_roots"}
    THEN PairAnswers(CanonicalPair(it)[1], CanonicalPair(it)[2]) \cup Garbage
    ELSE NumberAnswers(SpInteger(it.solution_str).num) \cup Garbage

Selections == {NoIndex} \cup {Index(i) : i \in {-1, 0, 1, 2, 3, 4}}

(***************************************************************************)
(* guardrails.py: the caps, Python values of a payload, the denylist.      *)
(***************************************************************************)
MAX_LATEX_LEN == 3000

MAX_CHOICES == 4

MAX_CHOICE_LEN == 120

MAX_STEPS == 8

MAX_STEP_LEN == 200

ELAB_MAX_TEXT == 600

ELAB_MAX_WALKTHROUGH_STEPS == 8

ELAB_MAX_WALKTHROUGH_STEP_LEN == 220

\* A JSON-like Python value: t is its type, s its text (a str: the sequence
\* of its characters; a float: its repr), n its number (an int; a float: its
\* truncation), items its elements (a list) or its entries (a dict: key,
\* value, key, value, ...).  Missing is a key the dict does not have.
PyValue(t, s, n, items) == [t |-> t, s |-> s, n |-> n, items |-> items]

Missing == PyValue("missing", << >>, 0, << >>)

VNone == PyValue("none", << >>, 0, << >>)

VStr(s) == PyValue("str", s, 0, << >>)

VInt(n) == PyValue("int", << >>, n, << >>)

\* A float, written as its repr, with the integer int() truncates it to.
VFloat(repr, trunc) == PyValue("float", repr, trunc, << >>)

VList(items) == PyValue("list", << >>, 0, items)

\* The dict of a sequence of <<key, value>>.
VDict(entries) ==
    PyValue("dict", << >>, 0,
            [i \in 1..(2 * Len(entries)) |->
                IF i % 2 = 1 THEN VStr(entries[(i + 1) \div 2][1])
                ELSE entries[i \div 2][2]])

\* The <<key, value>> entries of a dict.
Entries(d) ==
    [i \in 1..(Len(d.items) \div 2) |-> <<d.items[2 * i - 1].s, d.items[2 * i]>>]

\* bool(v): None, "", 0, [] and {} are false.
Truthy(v) ==
    CASE v.t \in {"missing", "none"} -> FALSE
      [] v.t = "str"                 -> v.s # << >>
      [] v.t = "int"                 -> v.n # 0
      [] v.t = "float"               -> v.s \notin {<<"0", ".", "0">>, <<"-", "0", ".", "0">>}
      [] v.t \in {"list", "dict"}    -> v.items # << >>

\* data.get(key): None when the key is missing.
DictGet(v) == IF v.t = "missing" THEN VNone ELSE v

\* data.get(key) or default
GetOr(v, default) == IF Truthy(v) THEN v ELSE default

\* str(v) for None, a str, an int and a float.
Str(v) ==
    CASE v.t = "none"  -> <<"N", "o", "n", "e">>
      [] v.t = "str"   -> v.s
      [] v.t = "int"   -> IntToStr(v.n)
      [] v.t = "float" -> v.s

\* int(v): [ok, n].  An int is itself, a float is truncated, a str is read
\* as an optionally signed decimal integer between blanks; anything else
\* raises.
ToInt(v) ==
    CASE v.t = "int"   -> [ok |-> TRUE, n |-> v.n]
      [] v.t = "float" -> [ok |-> TRUE, n |-> v.n]
      [] v.t = "str"   ->
            IF IsDigits(Unsigned(Strip(v.s)))
            THEN [ok |-> TRUE, n |-> SignOf(Strip(v.s)) * DigitsVal(Unsigned(Strip(v.s)))]
            ELSE [ok |-> FALSE, n |-> 0]
      [] OTHER         -> [ok |-> FALSE, n |-> 0]

UpperCase ==
    <<"A", "B", "C", "D", "E", "F", "G", "H", "I", "J", "K", "L", "M",
      "N", "O", "P", "Q", "R", "S", "T", "U", "V", "W", "X", "Y", "Z">>

LowerCase ==
    <<"a", "b", "c", "d", "e", "f", "g", "h", "i", "j", "k", "l", "m",
      "n", "o", "p", "q", "r", "s", "t", "u", "v", "w", "x", "y", "z">>

\* re.IGNORECASE: letters are compared in lower case.
Lower(ch) ==
    IF \E i \in DOMAIN UpperCase : UpperCase[i] = ch
    THEN LowerCase[CHOOSE i \in DOMAIN UpperCase : UpperCase[i] = ch]
    ELSE ch

\* \w of a regular expression: a letter, a digit or "_".
IsWordChar(ch) ==
    \/ \E i \in DOMAIN LowerCase : LowerCase[i] = Lower(ch)
    \/ IsDigit(ch)
    \/ ch = "_"

\* The literal matched letter for letter, without re.IGNORECASE.
LiteralAt_case_sensitive(s, i, lit) ==
    /\ i + Len(lit) - 1 <= Len(s)
    /\ \A k \in DOMAIN lit : s[i + k - 1] = lit[k]

\* The literal lit matches s at position i, letter case ignored.
LiteralAt(s, i, lit) ==
    /\ i + Len(lit) - 1 <= Len(s)
    /\ \A k \in DOMAIN lit : Lower(s[i + k - 1]) = lit[k]

\* \b after a word character that ends at position j: the text ends there
\* or goes on with a character that is not a word character.
WordEndsAt(s, j) == j = Len(s) \/ ~IsWordChar(s[j + 1])

\* The names of \\(input|include|write18|openout|read|write|immediate)\b
DisallowedNames ==
    <<<<"i", "n", "p", "u", "t">>,
      <<"i", "n", "c", "l", "u", "d", "e">>,
      <<"w", "r", "i", "t", "e", "1", "8">>,
      <<"o", "p", "e", "n", "o", "u", "t">>,
      <<"r", "e", "a", "d">>,
      <<"w", "r", "i", "t", "e">>,
      <<"i", "m", "m", "e", "d", "i", "a", "t", "e">>>>

\* \\begin\{document\}, \\end\{document\} and \\label\{, after the backslash.
DisallowedLiterals ==
    <<<<"b", "e", "g", "i", "n", "{", "d", "o", "c", "u", "m", "e", "n", "t", "}">>,
      <<"e", "n", "d", "{", "d", "o", "c", "u", "m", "e", "n", "t", "}">>,
      <<"l", "a", "b", "e", "l", "{">>>>

\* _DISALLOWED_LATEX matches s at the backslash of position i.
DisallowedAt(s, i) ==
    \/ \E k \in DOMAIN DisallowedNames :
            /\ LiteralAt(s, i + 1, DisallowedNames[k])
            /\ WordEndsAt(s, i + Len(DisallowedNames[k]))
    \/ \E k \in DOMAIN DisallowedLiterals :
            LiteralAt(s, i + 1, DisallowedLiterals[k])

\* _DISALLOWED_LATEX.search(s)
DISALLOWED_LATEX_search(s) ==
    \E i \in DOMAIN s : s[i] = "\\" /\ DisallowedAt(s, i)

\* _has_unsafe_latex(s): the search on (s or ""); a value that is not a str
\* makes the search raise, and the except branch returns True.
has_unsafe_latex(v) ==
    IF ~Truthy(v) THEN FALSE
    ELSE IF v.t = "str" THEN DISALLOWED_LATEX_search(v.s)
    ELSE TRUE

\* _stringify_list(values): [str(v) for v in values], or a TypeError when
\* values cannot be iterated.  A list gives its elements, a str its
\* characters, a dict its keys.
Iterable(v) == v.t \in {"list", "str", "dict"}

stringify_list(v) ==
    CASE v.t = "list" -> [i \in DOMAIN v.items |-> Str(v.items[i])]
      [] v.t = "str"  -> [i \in DOMAIN v.s |-> <<v.s[i]>>]
      [] v.t = "dict" -> [i \in DOMAIN Entries(v) |-> Entries(v)[i][1]]
      [] OTHER        -> << >>

\* len(v) of a list, a str or a dict.
PyLen(v) ==
    CASE v.t = "str"  -> Len(v.s)
      [] v.t = "dict" -> Len(Entries(v))
      [] OTHER        -> Len(v.items)

StartsWith(s, ch) == s # << >> /\ Head(s) = ch

EndsWith(s, ch) == s # << >> /\ s[Len(s)] = ch

\* str.count(ch)
Count(s, ch) == Cardinality({i \in DOMAIN s : s[i] = ch})

NumericSkills ==
    {"linear_equation", "linear_equation_mc", "two_step_equation",
     "exponential_solve", "rational_equation", "proportion",
     "pythagorean_hypotenuse", "pythagorean_leg", "rectangle_area",
     "rectangle_perimeter", "triangle_angle", "unit_rate"}

PairSkills == {"linear_system_2x2", "quadratic_roots"}

TripleSkills == {"linear_system_3x3"}

is_pair(s) ==
    /\ StartsWith(Strip(s), "(")
    /\ EndsWith(Strip(s), ")")
    /\ Contains(Strip(s), ",")

is_triple(s) ==
    /\ StartsWith(Strip(s), "(")
    /\ EndsWith(Strip(s), ")")
    /\ Count(Strip(s), ",") = 2

\* A skill outside the three lists is refused.
validate_math_formats_known_skills_only(skill, choices) ==
    IF skill \in NumericSkills
    THEN \A i \in DOMAIN choices : sympify(choices[i]).kind # "raise"
    ELSE IF skill \in PairSkills
    THEN \A i \in DOMAIN choices : is_pair(choices[i])
    ELSE IF skill \in TripleSkills
    THEN \A i \in DOMAIN choices : is_triple(choices[i])
    ELSE FALSE

\* _validate_math_formats(skill, choices): a choice that sympify cannot
\* parse raises, and the except branch returns False.
validate_math_formats(skill, choices) ==
    IF skill \in NumericSkills
    THEN \A i \in DOMAIN choices : sympify(choices[i]).kind # "raise"
    ELSE IF skill \in PairSkills
    THEN \A i \in DOMAIN choices : is_pair(choices[i])
    ELSE IF skill \in TripleSkills
    THEN \A i \in DOMAIN choices : is_triple(choices[i])
    ELSE TRUE

\* dict.get(key) on the entries of a dict.
Lookup(d, key) ==
    IF \E i \in DOMAIN Entries(d) : Entries(d)[i][1] = key
    THEN Entries(d)[CHOOSE i \in DOMAIN Entries(d) : Entries(d)[i][1] = key][2]
    ELSE Missing

\* diagram.get(key, 0)
SideOf(d, key) == IF Lookup(d, key).t = "missing" THEN VInt(0) ELSE Lookup(d, key)

IsDictOfType(d, type) ==
    d.t = "dict" /\ Lookup(d, <<"type">>) = VStr(<<type>>)

\* A right_triangle passed on as it came, its sides not read.
DiagramOut_sides_not_read(diagram) ==
    IF IsDictOfType(diagram, "right_triangle") \/ IsDictOfType(diagram, "triangle")
    THEN diagram
    ELSE VNone

\* The diagram of the cleaned payload: a right_triangle with its sides read
\* by int() when the three are positive, a triangle as it is, None otherwise.
DiagramOut(diagram) ==
    IF IsDictOfType(diagram, "right_triangle")
    THEN IF /\ ToInt(SideOf(diagram, <<"a">>)).ok
            /\ ToInt(SideOf(diagram, <<"b">>)).ok
            /\ ToInt(SideOf(diagram, <<"c">>)).ok
            /\ ToInt(SideOf(diagram, <<"a">>)).n > 0
            /\ ToInt(SideOf(diagram, <<"b">>)).n > 0
            /\ ToInt(SideOf(diagram, <<"c">>)).n > 0
         THEN VDict(<<<<<<"type">>, VStr(<<"right_triangle">>)>>,
                      <<<<"a">>, VInt(ToInt(SideOf(diagram, <<"a">>)).n)>>,
                      <<<<"b">>, VInt(ToInt(SideOf(diagram, <<"b">>)).n)>>,
                      <<<<"c">>, VInt(ToInt(SideOf(diagram, <<"c">>)).n)>>,
                      <<<<"labels">>,
                        GetOr(DictGet(Lookup(diagram, <<"labels">>)), VDict(<< >>))>>>>)
         ELSE VNone
    ELSE IF IsDictOfType(diagram, "triangle")
    THEN diagram
    ELSE VNone

\* The returned tuple (valid, cleaned, reasons, flags); raised marks a call
\* that ended with an exception.  flags is the set of the keys set to True.
Outcome(raised, valid, cleaned, reasons, flags) ==
    [raised |-> raised, valid |-> valid, cleaned |-> cleaned,
     reasons |-> reasons, flags |-> flags]

Cleaned(prompt, choices, index, steps, hints, diagram) ==
    [prompt_latex |-> prompt, choices |-> choices, correct_index |-> index,
     explanation_steps |-> steps, hints |-> hints, diagram |-> diagram]

RaisedOutcome ==
    Outcome(TRUE, FALSE, Cleaned(<< >>, << >>, -1, << >>, VNone, VNone), << >>, {})

\* No reason code recorded.
Reason_not_recorded(failed, code) == << >>

\* reasons.append(code) under a condition.
Reason(failed, code) == IF failed THEN <<code>> ELSE << >>

Flag(set, name) == IF set THEN {name} ELSE {}

\* 0 <= correct_index <= MAX_CHOICES: the upper end let in.
IndexInRange_inclusive(index) == 0 <= index /\ index <= MAX_CHOICES

\* 0 <= correct_index < MAX_CHOICES
IndexInRange(index) == 0 <= index /\ index < MAX_CHOICES

\* The checks of validate_ai_payload on the fields read from the payload.
CheckAiFields(skill, prompt_latex, choices, correct_index, steps, hints, diagram) ==
    LET strs        == stringify_list(choices)
        prompt_empty == prompt_latex.t # "str" \/ Len(prompt_latex.s) = 0
        prompt_long  == prompt_latex.t = "str" /\ Len(prompt_latex.s) > MAX_LATEX_LEN
        unsafe       == has_unsafe_latex(prompt_latex)
        bad_count    == ~(choices.t = "list" /\ PyLen(choices) = MAX_CHOICES)
        bad_len      == ~(\A i \in DOMAIN strs :
                            0 < Len(strs[i]) /\ Len(strs[i]) <= MAX_CHOICE_LEN)
        not_unique   == Cardinality({strs[i] : i \in DOMAIN strs}) # MAX_CHOICES
        index        == IF ToInt(correct_index).ok THEN ToInt(correct_index).n ELSE -1
        bad_index    == ~IndexInRange(index)
        bad_steps    == ~(steps.t = "list" /\ 1 <= PyLen(steps) /\ PyLen(steps) <= MAX_STEPS)
        bad_step_len == /\ ~bad_steps
                        /\ \E i \in DOMAIN steps.items :
                              \/ steps.items[i].t # "str"
                              \/ Len(steps.items[i].s) > MAX_STEP_LEN
        bad_format   == ~validate_math_formats(skill, strs)
        reasons      == Reason(prompt_empty, "prompt_empty")
                            \o Reason(prompt_long, "prompt_too_long")
                            \o Reason(unsafe, "unsafe_latex")
                            \o Reason(bad_count, "choices_count")
                            \o Reason(bad_len, "choices_len")
                            \o Reason(not_unique, "choices_unique")
                            \o Reason(bad_index, "correct_index")
                            \o Reason(bad_steps, "steps_count")
                            \o Reason(bad_step_len, "steps_len")
                            \o Reason(bad_format, "choices_format")
        valid        == ~(\/ prompt_empty \/ prompt_long \/ unsafe
                          \/ bad_count \/ bad_len \/ not_unique \/ bad_index
                          \/ bad_steps \/ bad_step_len \/ bad_format)
    IN  IF ~Iterable(choices) \/ ~Iterable(steps)
        THEN RaisedOutcome
        ELSE Outcome(FALSE, valid,
                     Cleaned(Str(prompt_latex), strs, index, stringify_list(steps),
                             IF Truthy(hints) THEN hints ELSE VNone,
                             DiagramOut(diagram)),
                     reasons,
                     Flag(prompt_long, "over_length") \cup Flag(unsafe, "unsafe_latex"))

\* A payload dict of validate_ai_payload.
AiPayload(prompt_latex, choices, correct_index, explanation_steps, hints, diagram) ==
    [prompt_latex |-> prompt_latex, choices |-> choices,
     correct_index |-> correct_index, explanation_steps |-> explanation_steps,
     hints |-> hints, diagram |-> diagram]

validate_ai_payload(domain, skill, data) ==
    CheckAiFields(skill,
                  GetOr(DictGet(data.prompt_latex), VStr(<< >>)),
                  GetOr(DictGet(data.choices), VList(<< >>)),
                  IF data.correct_index.t = "missing" THEN VInt(-1) ELSE data.correct_index,
                  GetOr(DictGet(data.explanation_steps), VList(<< >>)),
                  GetOr(DictGet(data.hints), VNone),
                  GetOr(DictGet(data.diagram), VNone))

\* _ok_text(s) of validate_elaboration_payload
ok_text(v) ==
    /\ v.t = "str"
    /\ 0 < Len(v.s)
    /\ Len(v.s) <= ELAB_MAX_TEXT
    /\ ~has_unsafe_latex(v)

\* "x is not None and not _ok_text(x)" for x = data.get(key) or None
TextBad(v) == v.t # "none" /\ ~ok_text(v)

\* "isinstance(x, str) and _has_unsafe_latex(x)" under a failed text check
TextUnsafe(v) == TextBad(v) /\ v.t = "str" /\ has_unsafe_latex(v)

\* The test on one walkthrough entry without the scan for unsafe markup.
StepBad_not_scanned(v) ==
    \/ v.t # "str"
    \/ Len(v.s) > ELAB_MAX_WALKTHROUGH_STEP_LEN

\* The test on one walkthrough entry.
StepBad(v) ==
    \/ v.t # "str"
    \/ Len(v.s) > ELAB_MAX_WALKTHROUGH_STEP_LEN
    \/ has_unsafe_latex(v)

\* str(x) if isinstance(x, str) else None
StrOrNone(v) == IF v.t = "str" THEN VStr(v.s) ELSE VNone

CleanedElaboration(concept, plan, walkthrough, quick_check, common_mistake) ==
    [concept |-> concept, plan |-> plan, walkthrough |-> walkthrough,
     quick_check |-> quick_check, common_mistake |-> common_mistake]

\* The checks of validate_elaboration_payload on the fields read from the
\* payload.
CheckElaborationFields(concept, plan, walkthrough, quick, mistake) ==
    LET bad_count == walkthrough.t # "list" \/ PyLen(walkthrough) > ELAB_MAX_WALKTHROUGH_STEPS
        entries   == IF bad_count THEN << >> ELSE walkthrough.items
        bad       == SelectSeq(entries, StepBad)
        steps_out == SelectSeq(entries, LAMBDA v : ~StepBad(v))
        reasons   == Reason(TextBad(concept), "concept_bad")
                        \o Reason(TextBad(plan), "plan_bad")
                        \o Reason(TextBad(quick), "quick_bad")
                        \o Reason(TextBad(mistake), "mistake_bad")
                        \o Reason(bad_count, "walkthrough_count")
                        \o [i \in DOMAIN bad |-> "walkthrough_step"]
        valid     == ~(\/ TextBad(concept) \/ TextBad(plan) \/ TextBad(quick)
                       \/ TextBad(mistake) \/ bad_count \/ bad # << >>)
        unsafe    == \/ TextUnsafe(concept) \/ TextUnsafe(plan)
                     \/ TextUnsafe(quick) \/ TextUnsafe(mistake)
                     \/ \E i \in DOMAIN bad : bad[i].t = "str" /\ has_unsafe_latex(bad[i])
    IN  Outcome(FALSE, valid,
                CleanedElaboration(StrOrNone(concept), StrOrNone(plan),
                                   IF steps_out # << >> THEN VList(steps_out) ELSE VNone,
                                   StrOrNone(quick), StrOrNone(mistake)),
                reasons, Flag(unsafe, "unsafe_latex"))

\* A payload dict of validate_elaboration_payload.
ElaborationPayload(concept, plan, walkthrough, quick_check, common_mistake) ==
    [concept |-> concept, plan |-> plan, walkthrough |-> walkthrough,
     quick_check |-> quick_check, common_mistake |-> common_mistake]

validate_elaboration_payload(data) ==
    CheckElaborationFields(GetOr(DictGet(data.concept), VNone),
                           GetOr(DictGet(data.plan), VNone),
                           GetOr(DictGet(data.walkthrough), VList(<< >>)),
                           GetOr(DictGet(data.quick_check), VNone),
                           GetOr(DictGet(data.common_mistake), VNone))

(***************************************************************************)
(* The payloads of the model.                                              *)
(***************************************************************************)
\* ch repeated n times.
Rep(ch, n) == [i \in 1..n |-> ch]

Upper(ch) ==
    IF \E i \in DOMAIN LowerCase : LowerCase[i] = ch
    THEN UpperCase[CHOOSE i \in DOMAIN LowerCase : LowerCase[i] = ch]
    ELSE ch

Backslash == <<"\\">>

\* "Let\ x=2."
SafeText == <<"L", "e", "t", "\\", " ", "x", "=", "2", ".">>

\* "\input{bad}" and its like for every name of the denylist, and the three
\* literals of the denylist.
CommandTexts ==
    {Backslash \o DisallowedNames[k] \o <<"{", "b", "a", "d", "}">> :
        k \in DOMAIN DisallowedNames}
    \cup {Backslash \o DisallowedNames[k] : k \in DOMAIN DisallowedNames}
    \cup {Backslash \o DisallowedLiterals[k] : k \in DOMAIN DisallowedLiterals}

InputBad == Backslash \o DisallowedNames[1] \o <<"{", "b", "a", "d", "}">>

\* Denylisted commands in other letter cases and inside a longer text.
UnsafeTexts ==
    CommandTexts
    \cup {[i \in DOMAIN t |-> Upper(t[i])] : t \in CommandTexts}
    \cup {SafeText \o <<" ">> \o InputBad \o <<" ">> \o SafeText,
          <<"\\", "I", "n", "P", "u", "T", " ", "x">>}

\* Texts that hold no denylisted command: "\includegraphics{a}" and
\* "\input1" are other words, "\label a" and "\begin {document}" lack the
\* brace that the pattern asks for, "input{bad}" has no backslash.
NearMissTexts ==
    {Backslash \o DisallowedNames[2] \o <<"g", "r", "a", "p", "h", "i", "c", "s", "{", "a", "}">>,
     Backslash \o DisallowedNames[1] \o <<"1">>,
     Backslash \o DisallowedNames[6] \o <<"_", "a">>,
     <<"\\", "l", "a", "b", "e", "l", " ", "a">>,
     <<"\\", "b", "e", "g", "i", "n", " ", "{", "d", "o", "c", "u", "m", "e", "n", "t", "}">>,
     DisallowedNames[1] \o <<"{", "b", "a", "d", "}">>}

Prompts ==
    {Missing, VNone, VStr(<< >>), VInt(5), VInt(0), VStr(SafeText),
     VStr(Rep("x", MAX_LATEX_LEN)), VStr(Rep("x", MAX_LATEX_LEN + 1)),
     VStr(Rep("x", MAX_LATEX_LEN) \o InputBad)}
    \cup {VStr(t) : t \in UnsafeTexts \cup NearMissTexts}

CorePrompts == {VStr(SafeText), VStr(InputBad), Missing}

\* A number of exactly n characters: "1.00...0".
LongNumber(n) == <<"1", ".">> \o Rep("0", n - 2)

Digit(n) == VStr(IntToStr(n))

\* "(a, b)"
PairText(a, b) == <<"(">> \o IntToStr(a) \o <<",", " ">> \o IntToStr(b) \o <<")">>

\* "(a, b, c)"
TripleText(a, b, c) ==
    <<"(">> \o IntToStr(a) \o <<",", " ">> \o IntToStr(b) \o <<",", " ">>
        \o IntToStr(c) \o <<")">>

NumericChoices == VList(<<Digit(1), Digit(2), Digit(3), Digit(4)>>)

DuplicateChoices == VList(<<Digit(1), Digit(2), Digit(2), Digit(4)>>)

PairChoices ==
    VList(<<VStr(PairText(1, 2)), VStr(PairText(1, 3)), VStr(PairText(2, 3)),
            VStr(PairText(3, 4))>>)

ChoiceLists ==
    {NumericChoices, DuplicateChoices, PairChoices, Missing, VNone, VInt(5),
     VStr(<<"a", "b", "c", "x">>),
     VList(<<VInt(1), VInt(2), VInt(3), VInt(4)>>),
     VList(<<VInt(1), Digit(1), VInt(2), VInt(3)>>),
     VList(<<Digit(1), Digit(2), Digit(3)>>),
     VList(<<Digit(1), Digit(2), Digit(3), Digit(4), Digit(5)>>),
     VList(<<Digit(1), Digit(2), Digit(3), VStr(<< >>)>>),
     VList(<<Digit(1), Digit(2), Digit(3), VStr(<<"1", "/">>)>>),
     VList(<<Digit(1), Digit(2), Digit(3), VStr(<<"a", "b">>)>>),
     VList(<<VStr(LongNumber(MAX_CHOICE_LEN)), Digit(2), Digit(3), Digit(4)>>),
     VList(<<VStr(LongNumber(MAX_CHOICE_LEN + 1)), Digit(2), Digit(3), Digit(4)>>),
     VList(<<VStr(TripleText(1, 2, 3)), VStr(PairText(1, 3)), VStr(PairText(2, 3)),
             VStr(PairText(3, 4))>>),
     VList(<<Digit(1), VStr(PairText(1, 3)), VStr(PairText(2, 3)),
             VStr(PairText(3, 4))>>),
     VList(<<VStr(<<"1", ",", "2">>), VStr(PairText(1, 3)),
             VStr(PairText(2, 3)), VStr(PairText(3, 4))>>),
     VList(<<VStr(TripleText(1, 2, 3)), VStr(TripleText(1, 2, 4)),
             VStr(TripleText(1, 3, 4)), VStr(TripleText(2, 3, 4))>>)}

CoreChoices == {NumericChoices, DuplicateChoices, PairChoices}

CorrectIndexes ==
    {Missing, VNone, VInt(-1), VInt(0), VInt(1), VInt(3), VInt(4),
     VStr(<<"2">>), VStr(<<" ", "2", " ">>), VStr(<<"x">>),
     VFloat(<<"2", ".", "7">>, 2), VFloat(<<"4", ".", "0">>, 4), VList(<<VInt(1)>>)}

CoreCorrectIndexes == {VInt(1), VInt(4)}

Step(k) == VStr(<<"s", "t", "e", "p">> \o IntToStr(k))

StepsOf(n) == VList([k \in 1..n |-> Step(k)])

\* MAX_STEPS + 1 steps, the last one over the length cap.
TooManyWithLong ==
    VList([k \in 1..(MAX_STEPS + 1) |->
            IF k <= MAX_STEPS THEN Step(k) ELSE VStr(Rep("x", MAX_STEP_LEN + 1))])

StepLists ==
    {StepsOf(2), TooManyWithLong, Missing, VNone, VList(<< >>), VInt(7),
     VStr(<<"a", "b">>),
     StepsOf(1), StepsOf(MAX_STEPS), StepsOf(MAX_STEPS + 1),
     VList(<<Step(1), VStr(Rep("x", MAX_STEP_LEN))>>),
     VList(<<Step(1), VStr(Rep("x", MAX_STEP_LEN + 1))>>),
     VList(<<Step(1), VInt(5)>>),
     VList(<<Step(1), VNone>>),
     VList(<<VStr(InputBad)>>),
     VList(<<Step(1), VStr(SafeText \o InputBad), Step(2)>>),
     VList(<<Step(1), VStr(<< >>)>>)}

CoreStepLists == {StepsOf(2), TooManyWithLong}

GuardSkills ==
    {"linear_equation_mc", "proportion", "quadratic_roots", "linear_system_2x2",
     "linear_system_3x3", "word_problem"}

CoreGuardSkills == {"linear_equation_mc", "quadratic_roots"}

Labels == VDict(<<<<<<"a">>, VStr(<<"3">>)>>>>)

\* A diagram dict of the given type with the given sides (Missing: no key).
Diagram(type, a, b, c, labels) ==
    VDict(SelectSeq(<<<<<<"type">>, type>>, <<<<"a">>, a>>, <<<<"b">>, b>>,
                      <<<<"c">>, c>>, <<<<"labels">>, labels>>>>,
                    LAMBDA e : e[2].t # "missing"))

RightTriangle == VStr(<<"right_triangle">>)

GoodDiagram == Diagram(RightTriangle, VInt(3), VInt(4), VInt(5), Labels)

Diagrams ==
    {Missing, VNone, GoodDiagram,
     Diagram(RightTriangle, VStr(<<"3">>), VFloat(<<"4", ".", "0">>, 4), VInt(5), Missing),
     Diagram(RightTriangle, VInt(3), VInt(4), Missing, Labels),
     Diagram(RightTriangle, VInt(3), VInt(0), VInt(5), Labels),
     Diagram(RightTriangle, VInt(-3), VInt(4), VInt(5), Labels),
     Diagram(RightTriangle, VInt(3), VInt(4), VStr(<<"x">>), Labels),
     Diagram(RightTriangle, VNone, VInt(4), VInt(5), Labels),
     Diagram(RightTriangle, VInt(3), VFloat(<<"0", ".", "5">>, 0), VInt(5), Labels),
     Diagram(VStr(<<"triangle">>), VInt(3), Missing, Missing, Labels),
     Diagram(VStr(<<"circle">>), VInt(3), VInt(4), VInt(5), Missing),
     Diagram(Missing, VInt(3), VInt(4), VInt(5), Missing),
     VDict(<< >>), VStr(<<"right_triangle">>), VInt(3),
     VList(<<VInt(3), VInt(4), VInt(5)>>)}

CoreDiagrams == {Missing, GoodDiagram}

Hints == {Missing, VList(<<VStr(<<"h">>)>>), VList(<< >>)}

CoreHints == {Missing}

AiCases(Ks, Ps, Cs, Is, Ss, Hs, Ds) ==
    {[skill |-> k, data |-> AiPayload(p, c, i, s, h, d)] :
        k \in Ks, p \in Ps, c \in Cs, i \in Is, s \in Ss, h \in Hs, d \in Ds}

\* The calls of validate_ai_payload: every value of one field with the core
\* values of the other fields (the core values hold passing and failing
\* ones, so that failures of different checks meet).
AiInputs ==
    AiCases(GuardSkills, CorePrompts, CoreChoices, CoreCorrectIndexes, CoreStepLists,
            CoreHints, CoreDiagrams)
    \cup AiCases(CoreGuardSkills, Prompts, CoreChoices, CoreCorrectIndexes,
                 CoreStepLists, CoreHints, CoreDiagrams)
    \cup AiCases(GuardSkills, CorePrompts, ChoiceLists, CoreCorrectIndexes, CoreStepLists,
                 CoreHints, CoreDiagrams)
    \cup AiCases(CoreGuardSkills, CorePrompts, CoreChoices, CorrectIndexes,
                 CoreStepLists, CoreHints, CoreDiagrams)
    \cup AiCases(CoreGuardSkills, CorePrompts, CoreChoices, CoreCorrectIndexes,
                 StepLists, CoreHints, CoreDiagrams)
    \cup AiCases(CoreGuardSkills, CorePrompts, CoreChoices, CoreCorrectIndexes,
                 CoreStepLists, Hints, Diagrams)

Texts ==
    {Missing, VNone, VStr(<< >>), VInt(5), VStr(SafeText), VStr(InputBad),
     VStr(Rep("x", ELAB_MAX_TEXT)), VStr(Rep("x", ELAB_MAX_TEXT + 1)),
     VList(<<VStr(SafeText)>>)}
    \cup {VStr(t) : t \in NearMissTexts}

CoreTexts == {Missing, VStr(SafeText), VStr(InputBad)}

Walkthroughs ==
    {Missing, VNone, VList(<< >>), VInt(5), VStr(<<"a", "b">>),
     StepsOf(2), StepsOf(ELAB_MAX_WALKTHROUGH_STEPS),
     StepsOf(ELAB_MAX_WALKTHROUGH_STEPS + 1),
     VList(<<Step(1), VStr(Rep("x", ELAB_MAX_WALKTHROUGH_STEP_LEN)), Step(2)>>),
     VList(<<Step(1), VStr(Rep("x", ELAB_MAX_WALKTHROUGH_STEP_LEN + 1)), Step(2)>>),
     VList(<<Step(1), VStr(InputBad), Step(2)>>),
     VList(<<VStr(InputBad), VInt(5)>>),
     VList(<<Step(2), VInt(5), Step(1), VNone>>),
     VList(<<Step(1), VStr(<< >>)>>)}

CoreWalkthroughs == {StepsOf(2), VList(<<Step(1), VStr(InputBad), Step(2)>>)}

ElaborationCases(Cs, Ps, Ws, Qs, Ms) ==
    {ElaborationPayload(c, p, w, q, m) : c \in Cs, p \in Ps, w \in Ws, q \in Qs, m \in Ms}

\* The calls of validate_elaboration_payload.
ElaborationInputs ==
    ElaborationCases(Texts, CoreTexts, CoreWalkthroughs, CoreTexts, CoreTexts)
    \cup ElaborationCases(CoreTexts, Texts, CoreWalkthroughs, CoreTexts, CoreTexts)
    \cup ElaborationCases(CoreTexts, CoreTexts, Walkthroughs, CoreTexts, CoreTexts)
    \cup ElaborationCases(CoreTexts, CoreTexts, CoreWalkthroughs, Texts, CoreTexts)
    \cup ElaborationCases(CoreTexts, CoreTexts, CoreWalkthroughs, CoreTexts, Texts)

(***************************************************************************)
(* main.py, /generate_ai: the normalisation of the model's choices.        *)
(***************************************************************************)
\* s.replace("[", "(").replace("]", ")").replace("{", "(").replace("}", ")")
\* and s.replace(";", ",")
FixBrackets(s) ==
    [i \in DOMAIN s |->
        CASE s[i] \in {"[", "{"} -> "("
          [] s[i] \in {"]", "}"} -> ")"
          [] s[i] = ";"          -> ","
          [] OTHER               -> s[i]]

\* sep.join(parts)
RECURSIVE Join(_, _)
Join(parts, sep) ==
    IF parts = << >> THEN << >>
    ELSE IF Len(parts) = 1 THEN parts[1]
    ELSE parts[1] \o sep \o Join(Tail(parts), sep)

\* re.sub(r"\s*,\s*", ", ", s): the blanks around every comma become one
\* blank after it.
CommaSpaced(s) ==
    LET p == Split(s, ",")
    IN  Join([i \in DOMAIN p |->
                IF Len(p) = 1 THEN p[i]
                ELSE IF i = 1 THEN RStrip(p[i])
                ELSE IF i = Len(p) THEN LStrip(p[i])
                ELSE Strip(p[i])],
             <<",", " ">>)

Wrapped(s) == StartsWith(s, "(") /\ EndsWith(s, ")")

Parenthesised(s) == <<"(">> \o s \o <<")">>

\* re.split(r"\s+and\s+|\s+", s) without its empty pieces: the words of s,
\* an "and" between two words left out.
SplitAnd(s) ==
    LET w == SplitWhitespace(s)
    IN  SelectSeq([i \in DOMAIN w |->
                     IF w[i] = <<"a", "n", "d">> /\ 1 < i /\ i < Len(w) THEN << >>
                     ELSE w[i]],
                  LAMBDA part : part # << >>)

\* The pair format (a, b) of linear_system_2x2 and quadratic_roots.
AsPair(s) ==
    IF Contains(s, ",") THEN (IF Wrapped(s) THEN s ELSE Parenthesised(s))
    ELSE IF Len(SplitAnd(s)) = 2
    THEN Parenthesised(SplitAnd(s)[1] \o <<",", " ">> \o SplitAnd(s)[2])
    ELSE Parenthesised(s \o <<",", " ", "0">>)

\* The triple format (a, b, c) of linear_system_3x3.
AsTriple(s) ==
    IF Count(s, ",") = 2 /\ ~Wrapped(s) THEN Parenthesised(s) ELSE s

\* One pass of the first loop of _normalize_choices on the raw value c.
NormalizeChoice(skill, c) ==
    LET s == CommaSpaced(FixBrackets(Strip(Str(c))))
        p == IF skill \in PairSkills THEN AsPair(s) ELSE s
    IN  IF skill \in TripleSkills THEN AsTriple(p) ELSE p

\* "while len(out) < 4: out.append(out[-1] if out else "0")"
PadToFour(out) ==
    [i \in 1..Max(4, Len(out)) |->
        IF i <= Len(out) THEN out[i]
        ELSE IF out = << >> THEN <<"0">>
        ELSE out[Len(out)]]

\* out before the uniqueness loop: the first four values, normalised and
\* padded.
NormalizedChoices(skill, vals) ==
    PadToFour([i \in 1..Min(4, Len(vals.items)) |-> NormalizeChoice(skill, vals.items[i])])

PlusZero == <<" ", "+", " ", "0">>

\* "(a, b)" to "(a, b + 0)": + 0 on the last entry of the tuple.
LastEntryPlusZero(s) ==
    LET inner == SubSeq(s, 2, Len(s) - 1)
        parts == [i \in DOMAIN Split(inner, ",") |-> Strip(Split(inner, ",")[i])]
    IN  Parenthesised(Join([i \in DOMAIN parts |->
                              IF i = Len(parts) THEN parts[i] \o PlusZero ELSE parts[i]],
                           <<",", " ">>))

\* The body of "while t in seen": the new t, computed from s, the value the
\* pass of the for loop started with.
Tweak(skill, s) ==
    IF skill \in PairSkills /\ Wrapped(s) /\ Len(Split(SubSeq(s, 2, Len(s) - 1), ",")) >= 2
    THEN LastEntryPlusZero(s)
    ELSE IF skill \in TripleSkills /\ Wrapped(s)
            /\ Len(Split(SubSeq(s, 2, Len(s) - 1), ",")) >= 3
    THEN LastEntryPlusZero(s)
    ELSE Parenthesised(s) \o PlusZero

\* "ci = int(data.get("correct_index", 0))", 0 when int() raises or ci is
\* outside [0, 4).
CoerceIndex(v) ==
    LET ci == IF v.t = "missing" THEN 0
              ELSE IF ToInt(v).ok THEN ToInt(v).n
              ELSE 0
    IN  IF ci < 0 \/ ci >= 4 THEN 0 ELSE ci

DefaultSteps ==
    <<<<"Identify givens and what is asked.">>, <<"Compute step by step and verify.">>>>

\* The normalised explanation steps: each str(s).strip(), cut to
\* MAX_STEP_LEN, the empty ones dropped; two default steps when none is
\* left; at most MAX_STEPS.
NormalizeSteps(raw_steps) ==
    LET strs == [i \in DOMAIN raw_steps.items |->
                    LET t == Strip(Str(raw_steps.items[i]))
                    IN  IF Len(t) > MAX_STEP_LEN THEN SubSeq(t, 1, MAX_STEP_LEN) ELSE t]
        kept == SelectSeq(strs, LAMBDA t : t # << >>)
        norm == IF kept = << >> THEN DefaultSteps ELSE kept
    IN  SubSeq(norm, 1, Min(MAX_STEPS, Len(norm)))

IsAlpha(ch) == \E i \in DOMAIN LowerCase : LowerCase[i] = Lower(ch)

\* "".join(run) for a run of two or more one-letter words, the run itself
\* otherwise.
FlushRun(run) == IF Len(run) >= 2 THEN <<Join(run, << >>)>> ELSE run

RECURSIVE JoinLetterRuns(_, _)
JoinLetterRuns(tokens, run) ==
    IF tokens = << >> THEN FlushRun(run)
    ELSE IF Len(Head(tokens)) = 1 /\ IsAlpha(Head(tokens)[1])
    THEN JoinLetterRuns(Tail(tokens), Append(run, Head(tokens)))
    ELSE FlushRun(run) \o <<Head(tokens)>> \o JoinLetterRuns(Tail(tokens), << >>)

\* _normalize_prompt_text(s): whitespace collapsed, and words spelled letter
\* by letter ("p l u s") joined.
normalize_prompt_text(s) ==
    Join(JoinLetterRuns(SplitWhitespace(s), << >>), <<" ">>)

Frac == <<"\\", "f", "r", "a", "c">>

\* The first position from i on that holds no blank.
RECURSIVE SkipSpaces(_, _)
SkipSpaces(s, i) == IF i <= Len(s) /\ s[i] = " " THEN SkipSpaces(s, i + 1) ELSE i

\* The first position from i on that holds one of the characters, 0 if none.
Until(s, i, chars) ==
    IF \E j \in i..Len(s) : s[j] \in chars
    THEN CHOOSE j \in i..Len(s) : s[j] \in chars /\ \A k \in i..(j - 1) : s[k] \notin chars
    ELSE 0

\* "( group )" from position p on: [ok, group, last] with the group without
\* the blanks around it and last the position of ")".
ParenGroup(s, p) ==
    LET q == Until(s, p + 1, {"(", ")"})
    IN  IF p <= Len(s) /\ s[p] = "(" /\ q > p + 1 /\ s[q] = ")"
        THEN [ok |-> TRUE,
              group |-> IF Strip(SubSeq(s, p + 1, q - 1)) = << >> THEN <<" ">>
                        ELSE Strip(SubSeq(s, p + 1, q - 1)),
              last |-> q]
        ELSE [ok |-> FALSE, group |-> << >>, last |-> 0]

\* \\frac\s*\(\s*([^()]+?)\s*\)\s*\(\s*([^()]+?)\s*\) matched at position i.
FracParens(s, i) ==
    LET g1 == ParenGroup(s, SkipSpaces(s, i + 5))
        g2 == ParenGroup(s, SkipSpaces(s, g1.last + 1))
    IN  IF LiteralAt_case_sensitive(s, i, Frac) /\ g1.ok /\ g2.ok
        THEN [ok |-> TRUE, last |-> g2.last,
              text |-> Frac \o <<"{">> \o g1.group \o <<"}", "{">> \o g2.group \o <<"}">>]
        ELSE [ok |-> FALSE, last |-> 0, text |-> << >>]

\* re.sub of the pattern above by \frac{\1}{\2}: \frac(8)(5) becomes \frac{8}{5}.
RECURSIVE FixFracParens(_)
FixFracParens(s) ==
    IF \E i \in DOMAIN s : FracParens(s, i).ok
    THEN LET i == CHOOSE k \in DOMAIN s :
                    FracParens(s, k).ok /\ \A j \in 1..(k - 1) : ~FracParens(s, j).ok
             m == FracParens(s, i)
         IN  SubSeq(s, 1, i - 1) \o m.text \o FixFracParens(SubSeq(s, m.last + 1, Len(s)))
    ELSE s

\* \{\\frac\{([^}]+)\}\{([^}]+)\}\} matched at position i.
BracedFrac(s, i) ==
    LET q1 == Until(s, i + 7, {"}"})
        q2 == Until(s, q1 + 2, {"}"})
    IN  IF /\ i + 6 <= Len(s) /\ s[i] = "{"
           /\ LiteralAt_case_sensitive(s, i + 1, Frac) /\ s[i + 6] = "{"
           /\ q1 > i + 7 /\ q1 + 1 <= Len(s) /\ s[q1 + 1] = "{"
           /\ q2 > q1 + 2 /\ q2 + 1 <= Len(s) /\ s[q2 + 1] = "}"
        THEN [ok |-> TRUE, last |-> q2 + 1, text |-> SubSeq(s, i + 1, q2)]
        ELSE [ok |-> FALSE, last |-> 0, text |-> << >>]

\* re.sub of the pattern above by \frac{\1}{\2}: {\frac{a}{b}} loses its
\* outer braces.
RECURSIVE UnbraceFrac(_)
UnbraceFrac(s) ==
    IF \E i \in DOMAIN s : BracedFrac(s, i).ok
    THEN LET i == CHOOSE k \in DOMAIN s :
                    BracedFrac(s, k).ok /\ \A j \in 1..(k - 1) : ~BracedFrac(s, j).ok
             m == BracedFrac(s, i)
         IN  SubSeq(s, 1, i - 1) \o m.text \o UnbraceFrac(SubSeq(s, m.last + 1, Len(s)))
    ELSE s

\* The choices of the validated item after the two substitutions.
FixChoices(choices) == [i \in DOMAIN choices |-> UnbraceFrac(FixFracParens(choices[i]))]

(***************************************************************************)
(* main.py, /generate_ai: the response and the fallback item.              *)
(***************************************************************************)
\* GenerateAIResponse(...).  prompt_latex, the choices and the steps are
\* texts; diagram is None, the dict of a generator or a value of the model's
\* payload; hints is None or a list of texts.
GenerateAIResponse(prompt_latex, choices, correct_index, explanation_steps,
                   diagram, hints, explanation) ==
    [prompt_latex |-> prompt_latex, choices |-> choices,
     correct_index |-> correct_index, explanation_steps |-> explanation_steps,
     diagram |-> diagram, hints |-> hints, explanation |-> explanation]

\* item.explanation_steps[:2] if item.explanation_steps else None
FirstTwo(steps) == IF steps = << >> THEN None ELSE SubSeq(steps, 1, Min(2, Len(steps)))

\* int(text) of a solution_str, 0 in the except branch.
IntOrZero(text) == IF SpInteger(text).kind = "raise" THEN 0 ELSE SpInteger(text).num

\* f"({x}, {y})"
PairChoice(x, y) == <<"(">> \o IntToStr(x) \o <<",", " ">> \o IntToStr(y) \o <<")">>

\* The branches of _fallback_mc for the two Pythagorean skills.
FallbackTriangle(it) ==
    LET sol == it.solution_str
        n   == SpInteger(sol).num
    IN  GenerateAIResponse(it.prompt_latex,
                           <<sol, IntToStr(n + 1), IntToStr(n - 1), IntToStr(n + 2)>>,
                           0, it.explanation_steps, it.diagram,
                           FirstTwo(it.explanation_steps), None)

\* The branch for linear_system_2x2.
FallbackSystem(it) ==
    LET parts == Split(it.solution_str, ",")
        ok    == Len(parts) = 2 /\ SpInteger(parts[1]).kind # "raise"
                                /\ SpInteger(parts[2]).kind # "raise"
        sx    == IF ok THEN SpInteger(parts[1]).num ELSE 0
        sy    == IF ok THEN SpInteger(parts[2]).num ELSE 0
    IN  GenerateAIResponse(it.prompt_latex,
                           <<PairChoice(sx, sy), PairChoice(sx + 1, sy),
                             PairChoice(sx, sy - 1), PairChoice(sy, sx)>>,
                           0, it.explanation_steps, None,
                           FirstTwo(it.explanation_steps), None)

\* The branch for quadratic_roots.
FallbackQuadratic(it) ==
    LET parts == Split(it.solution_str, ",")
        ok    == Len(parts) >= 2 /\ SpInteger(parts[1]).kind # "raise"
                                 /\ SpInteger(parts[2]).kind # "raise"
        r1    == IF ok THEN SpInteger(parts[1]).num ELSE 0
        r2    == IF ok THEN SpInteger(parts[2]).num ELSE 0
    IN  GenerateAIResponse(it.prompt_latex,
                           <<PairChoice(r1, r2), PairChoice(r1 + 1, r2),
                             PairChoice(r1, r2 - 1), PairChoice(-r1, -r2)>>,
                           0, it.explanation_steps, None, None, None)

\* The branch for exponential_solve.
FallbackExponential(it) ==
    LET sol == IntOrZero(it.solution_str)
    IN  GenerateAIResponse(it.prompt_latex,
                           <<IntToStr(sol), IntToStr(sol + 1), IntToStr(sol - 1),
                             IntToStr(sol + 2)>>,
                           0, it.explanation_steps, None, None, None)

\* The branch for proportion.
FallbackProportion(it) ==
    LET sol == IntOrZero(it.solution_str)
    IN  GenerateAIResponse(it.prompt_latex,
                           <<IntToStr(sol), IntToStr(sol + 1), IntToStr(Max(1, sol - 1)),
                             IntToStr(sol + 2)>>,
                           0, it.explanation_steps, None,
                           FirstTwo(it.explanation_steps), None)

\* The path after the try: the linear_equation_mc item as it is.
FallbackDefault(it) ==
    GenerateAIResponse(it.prompt_latex,
                       IF it.choices = << >> THEN <<<<"1">>, <<"2">>, <<"3">>, <<"4">>>>
                       ELSE it.choices,
                       OrElse(it.correct_index, 0), it.explanation_steps, None,
                       FirstTwo(it.explanation_steps), None)

\* The generator behind _fallback_mc for a request: the branch that matches
\* req.domain and req.skill, generate_linear_equation_mc when none does.
FallbackSkill(domain, skill) ==
    IF \/ domain = "Geometry" /\ skill \in {"pythagorean_hypotenuse", "pythagorean_leg"}
       \/ domain = "Algebra" /\ skill = "linear_system_2x2"
       \/ domain = "Advanced" /\ skill \in {"quadratic_roots", "exponential_solve"}
       \/ domain = "PSD" /\ skill = "proportion"
    THEN skill
    ELSE "linear_equation_mc"

\* _fallback_mc() of a request, for the seed it drew.
fallback_mc(domain, skill, seed) ==
    LET fs == FallbackSkill(domain, skill)
        it == Generate(fs, seed)
    IN  CASE fs \in {"pythagorean_hypotenuse", "pythagorean_leg"} -> FallbackTriangle(it)
          [] fs = "linear_system_2x2"  -> FallbackSystem(it)
          [] fs = "quadratic_roots"    -> FallbackQuadratic(it)
          [] fs = "exponential_solve"  -> FallbackExponential(it)
          [] fs = "proportion"         -> FallbackProportion(it)
          [] fs = "linear_equation_mc" -> FallbackDefault(it)

\* The skills _ai_expl_defaults has an entry for.
ExplainedSkills ==
    {"linear_equation", "two_step_equation", "linear_system_2x2", "linear_system_3x3",
     "quadratic_roots", "exponential_solve", "rational_equation", "proportion",
     "unit_rate", "pythagorean_hypotenuse", "pythagorean_leg", "rectangle_area",
     "rectangle_perimeter", "triangle_angle"}

\* _ai_expl_defaults(sk): the entry of the skill, by its key, or {}.
ai_expl_defaults(sk) == IF sk \in ExplainedSkills THEN <<sk>> ELSE << >>

\* A value DiagramSpec takes for a, b or c: absent, None or an integer.
FitsOptionalInt(v) == v.t \in {"missing", "none", "int"} \/ (v.t = "str" /\ ToInt(v).ok)

\* GenerateAIResponse(...) raises a ValidationError: hints is not a list of
\* str, or the diagram does not fit DiagramSpec.
ResponseRaises(hints, diagram) ==
    \/ hints.t \notin {"none", "list"}
    \/ hints.t = "list" /\ \E i \in DOMAIN hints.items : hints.items[i].t # "str"
    \/ /\ diagram.t = "dict"
       /\ \E k \in {"a", "b", "c"} : ~FitsOptionalInt(Lookup(diagram, <<k>>))

\* The response built from a valid cleaned payload.
ValidatedResponse(skill, cleaned) ==
    LET steps == cleaned.explanation_steps
        hints == IF Truthy(cleaned.hints) THEN stringify_list(cleaned.hints)
                 ELSE FirstTwo(steps)
    IN  GenerateAIResponse(normalize_prompt_text(cleaned.prompt_latex),
                           FixChoices(cleaned.choices), cleaned.correct_index, steps,
                           cleaned.diagram, hints, ai_expl_defaults(skill))

(***************************************************************************)
(* main.py, /generate_ai: one request after another.  ai is the request in *)
(* hand, metrics is app.state.guardrails_metrics.                          *)
(***************************************************************************)
MaxRequests == 2

\* req.domain and req.skill of the requests: the six skills _fallback_mc
\* has a branch for whose generator is in generators.py, the default
\* Algebra / linear_equation_mc, and a skill asked under another domain than
\* its branch tests.
AiRequests ==
    {<<"Geometry", "pythagorean_hypotenuse">>, <<"Geometry", "pythagorean_leg">>,
     <<"Algebra", "linear_system_2x2">>, <<"Advanced", "quadratic_roots">>,
     <<"Advanced", "exponential_solve">>, <<"PSD", "proportion">>,
     <<"Algebra", "linear_equation_mc">>, <<"Algebra", "quadratic_roots">>}

\* The seeds "seed = random.randint(1, 10_000_000)" of _fallback_mc draws,
\* as the streams of the generator that the seed is handed to.
FallbackSeeds(skill) ==
    CASE skill \in {"pythagorean_hypotenuse", "pythagorean_leg"} ->
            {Seed(<<t, k>>, << >>) : t \in {0, 4}, k \in {0, 4}}
      [] skill = "linear_system_2x2" ->
            {Seed(<<x, y, 3, 3, 5, 3>>, << >>) : x \in {0, 5, 10}, y \in {0, 5, 10}}
      [] skill = "quadratic_roots" ->
            {Seed(<<r1, r2, 0>>, << >>) : r1 \in {0, 5, 10}, r2 \in {0, 5, 10}}
      [] skill = "exponential_solve" ->
            {Seed(<<0, x, 0>>, << >>) : x \in 0..6}
      [] skill = "proportion" ->
            {Seed(<<b, c, k>>, << >>) : b \in {0, 7}, c \in {0, 7}, k \in {0, 8}}
      [] skill = "linear_equation_mc" ->
            {Seed(<<3, r, 2>>, <<i1, 0, j3, 0, 0>>) :
                r \in {0, 8, 9, 10}, i1 \in {0, 3}, j3 \in {0, 1}}

\* The ways a request ends without a payload: google.generativeai is not
\* installed, no GEMINI_API_KEY, the call timed out, the call raised, no
\* model name worked, resp.text was empty or raised, the text was no JSON,
\* the JSON was not an object.
FailureKinds ==
    {"no_genai", "no_api_key", "timeout", "model_raises", "no_model",
     "empty_reply", "unparseable_reply", "reply_not_a_dict"}

\* The failures that count as a failed validation as well.
CountedAsValidationFailure == {"empty_reply", "unparseable_reply", "reply_not_a_dict"}

\* "x p l u s 1": a prompt that spells a word letter by letter.
SpelledText == <<"x", " ", "p", " ", "l", " ", "u", " ", "s", " ", " ", "1">>

ReplyPrompts == {VStr(SafeText), VStr(InputBad), VStr(SpelledText)}

\* "(\frac(8)(5), 1)" and the same with a blank after the first parenthesis.
FracPair(blank) ==
    <<"(">> \o Frac \o <<"(">> \o blank \o <<"8", ")", "(", "5", ")", ",", " ", "1", ")">>

ReplyChoices ==
    {NumericChoices, DuplicateChoices, PairChoices, Missing, VInt(5),
     VList(<<Digit(1), Digit(2)>>),
     VList(<<Digit(1), Digit(2), Digit(3)>>),
     VList(<<Digit(1), Digit(1), Digit(1), Digit(2)>>),
     VList(<<Digit(1), Digit(2), Digit(3), Digit(4), Digit(5)>>),
     VList(<<VInt(1), VInt(2), VInt(3), VInt(4)>>),
     VList(<<VStr(<<"1", ";", "2">>), VStr(<<"[", "3", " ", ",", "4", "]">>),
             VStr(<<"5", " ", "a", "n", "d", " ", "6">>), VStr(<<" ", "7">>)>>),
     VList(<<VStr(PairText(1, 2)), VStr(PairText(1, 2)), VStr(PairText(1, 2)),
             VStr(PairText(3, 4))>>),
     VList(<<VStr(FracPair(<< >>)), VStr(FracPair(<<" ">>)), VStr(PairText(1, 2)),
             VStr(PairText(3, 4))>>)}

ReplyIndexes == {VInt(1), VInt(7), Missing, VStr(<<"x">>)}

ReplySteps == {StepsOf(2), Missing, VInt(7), VList(<<VStr(InputBad)>>)}

ReplyHints == {Missing, VList(<<VStr(<<"h">>)>>), VStr(<<"h">>)}

ReplyDiagrams ==
    {Missing, GoodDiagram,
     Diagram(VStr(<<"triangle">>), VStr(<<"x">>), Missing, Missing, Missing)}

ReplyCases(Ps, Cs, Is, Ss, Hs, Ds) ==
    {AiPayload(p, c, i, s, h, d) :
        p \in Ps, c \in Cs, i \in Is, s \in Ss, h \in Hs, d \in Ds}

\* The JSON objects the model replies with: every value of one field with
\* one passing value of the others, and every choice list under a prompt
\* that fails as well.
AiReplies ==
    ReplyCases(ReplyPrompts, ReplyChoices, {VInt(1)}, {StepsOf(2)}, {Missing}, {Missing})
    \cup ReplyCases({VStr(SafeText)}, {NumericChoices, PairChoices}, ReplyIndexes,
                    ReplySteps, {Missing}, {Missing})
    \cup ReplyCases({VStr(SafeText)}, {NumericChoices, PairChoices}, {VInt(1)},
                    {StepsOf(2)}, ReplyHints, ReplyDiagrams)

NoPayload == AiPayload(Missing, Missing, Missing, Missing, Missing, Missing)

NoSeed == Seed(<< >>, << >>)

NoRequest ==
    [pc |-> "idle", domain |-> "", skill |-> "", kind |-> "", data |-> NoPayload,
     out |-> << >>, i |-> 0, t |-> << >>, seen |-> {}, valid |-> FALSE,
     seed |-> NoSeed, response |-> None]

NoMetrics ==
    [ai_calls_total |-> 0, validated_ok_total |-> 0, validation_failed_total |-> 0,
     fallback_total |-> 0, unsafe_latex_total |-> 0, over_length_total |-> 0]

Bump(flag) == IF flag THEN 1 ELSE 0

\* The counters after a path that ends in "return _fallback_mc()".
CountFallback(m, validation_failed, flags) ==
    [m EXCEPT !.fallback_total = @ + 1,
              !.validation_failed_total = @ + Bump(validation_failed),
              !.unsafe_latex_total = @ + Bump("unsafe_latex" \in flags),
              !.over_length_total = @ + Bump("over_length" \in flags)]

\* "(vals or [])[:4]" and "for s in raw_steps" take a list or a str; an int
\* or a dict raises.
IsSequence(v) == v.t \in {"list", "str"}

\* A list as it is, a str as the list of its characters.
AsList(v) == IF v.t = "str" THEN VList([i \in DOMAIN v.s |-> VStr(<<v.s[i]>>)]) ELSE v

TextList(texts) == VList([i \in DOMAIN texts |-> VStr(texts[i])])

\* data after the normalisation of choices, correct_index and steps.
NormalizedData(data, out, steps) ==
    AiPayload(data.prompt_latex, TextList(out), VInt(CoerceIndex(data.correct_index)),
              TextList(steps), data.hints, data.diagram)

NoLoop == [pc |-> "idle", x0 |-> 0, y0 |-> 0, a |-> 0, b |-> 0, c |-> 0, d |-> 0, passes |-> 0]

(***************************************************************************)
(* main.py, /elaborate: the rate limit.  The endpoint is a plain "def", so *)
(* requests run on the threads of the worker pool; quota is the state they *)
(* share and the frame of each thread.                                     *)
(***************************************************************************)
Threads == 1..2

MinuteLimit == 3

DayLimit == 20

\* The keys the counts are kept under: "anonymous" and one user id.
UserKeys == {"anonymous", "u1"}

\* req.user_id of the requests: absent, empty, blank, given.
RawUserIds ==
    {VNone, VStr(<< >>), VStr(<<" ">>), VStr(<<"u", "1">>), VStr(<<" ", "u", "1">>)}

\* (req.user_id or "anonymous").strip() or "anonymous"
UserId(raw) ==
    LET given == IF Truthy(raw) THEN raw.s ELSE <<"anonymous">>
        t     == Strip(given)
    IN  IF t = << >> THEN "anonymous"
        ELSE IF t = <<"anonymous">> THEN "anonymous" ELSE "u1"

NoCounts == [u \in UserKeys |-> [min |-> 0, day |-> 0]]

\* Before the first request: app.state has no _elab_quota (cur = 0).  dicts
\* are the dicts "app.state._elab_quota = {}" has made, cur the one the
\* attribute names, passed the requests that got past the check, started
\* the requests that came in, overlapped whether two requests were ever in
\* the handler together.  All requests fall in one minute of one day.
NoThread == [pc |-> "idle", user |-> "anonymous", qb |-> 0, tmp |-> 0]

NoQuota ==
    [cur |-> 0, dicts |-> [k \in 1..2 |-> NoCounts], made |-> 0,
     passed |-> NoCounts, started |-> 0, overlapped |-> FALSE,
     th |-> [t \in Threads |-> NoThread]]

(***************************************************************************)
(* The state machine: calls of the generators and graders.                 *)
(***************************************************************************)
Init ==
    /\ globalRng = 0
    /\ item = None
    /\ again = None
    /\ answer = << >>
    /\ selected = NoIndex
    /\ graded = None
    /\ aiCall = None
    /\ elabCall = None
    /\ ai = NoRequest
    /\ metrics = NoMetrics
    /\ loop = NoLoop
    /\ quota = NoQuota

\* generate_<skill>(seed): the first call of a session, with any seed.
GenerateCall ==
    /\ item = None
    /\ \E skill \in Skills : \E seed \in Seeds(skill) :
        item' = Generate(skill, seed)
    /\ UNCHANGED <<globalRng, again, answer, selected, graded, aiCall, elabCall,
                   ai, metrics, loop, quota>>

\* A request that carries no seed draws one from the module-level generator,
\* seed = random.randint(1, 10_000_000), which advances that generator.
DrawFreshSeed ==
    /\ globalRng < MaxGlobalDraws
    /\ globalRng' = globalRng + 1
    /\ UNCHANGED <<item, again, answer, selected, graded, aiCall, elabCall,
                   ai, metrics, loop, quota>>

\* A second generate_<skill>(seed) with the skill and seed of the last item.
GenerateAgain ==
    /\ item # None
    /\ again = None
    /\ again' = Generate(item.skill, item.seed)
    /\ UNCHANGED <<globalRng, item, answer, selected, graded, aiCall, elabCall,
                   ai, metrics, loop, quota>>

\* grade_<skill>(seed, user_answer) for the seed of the last item.
GradeCall ==
    /\ item # None
    /\ graded = None
    /\ item.format = "SPR"
    /\ \E ans \in Answers(item) :
        /\ answer' = ans
        /\ graded' = Grade(item.skill, item.seed, ans)
    /\ UNCHANGED <<globalRng, item, again, selected, aiCall, elabCall,
                   ai, metrics, loop, quota>>

\* grade_linear_equation_mc(seed, selected_index) for the seed of the last item.
GradeMCCall ==
    /\ item # None
    /\ graded = None
    /\ item.format = "MC"
    /\ \E sel \in Selections :
        /\ selected' = sel
        /\ graded' = grade_linear_equation_mc(item.seed, sel)
    /\ UNCHANGED <<globalRng, item, again, answer, aiCall, elabCall,
                   ai, metrics, loop, quota>>

Next == GenerateCall \/ GradeCall \/ GradeMCCall

Spec == Init /\ [][Next]_vars

NextDet == GenerateCall \/ DrawFreshSeed \/ GenerateAgain

SpecDet == Init /\ [][NextDet]_vars

\* validate_ai_payload(domain, skill, data) on a payload of the model.
ValidateAiCall ==
    /\ aiCall = None
    /\ elabCall = None
    /\ \E c \in AiInputs :
        aiCall' = [skill |-> c.skill, data |-> c.data,
                   out |-> validate_ai_payload("Algebra", c.skill, c.data)]
    /\ UNCHANGED <<globalRng, item, again, answer, selected, graded, elabCall,
                   ai, metrics, loop, quota>>

\* validate_elaboration_payload(data) on a payload of the model.
ValidateElaborationCall ==
    /\ aiCall = None
    /\ elabCall = None
    /\ \E d \in ElaborationInputs :
        elabCall' = [data |-> d, out |-> validate_elaboration_payload(d)]
    /\ UNCHANGED <<globalRng, item, again, answer, selected, graded, aiCall,
                   ai, metrics, loop, quota>>

NextGuard == ValidateAiCall \/ ValidateElaborationCall

SpecGuard == Init /\ [][NextGuard]_vars

(***************************************************************************)
(* The steps of a /generate_ai request.                                    *)
(***************************************************************************)
\* "return _fallback_mc()": the request ends with the fallback item of a
\* freshly drawn seed.
EndInFallback(kind, valid, seed, validation_failed, flags) ==
    /\ ai' = [ai EXCEPT !.pc = "done", !.kind = kind, !.valid = valid, !.seed = seed,
                        !.response = fallback_mc(ai.domain, ai.skill, seed)]
    /\ metrics' = CountFallback(metrics, validation_failed, flags)

\* A request arrives: ai_calls_total += 1.
AiRequest ==
    /\ ai.pc \in {"idle", "done"}
    /\ metrics.ai_calls_total < MaxRequests
    /\ \E r \in AiRequests :
        ai' = [NoRequest EXCEPT !.pc = "model", !.domain = r[1], !.skill = r[2]]
    /\ metrics' = [metrics EXCEPT !.ai_calls_total = @ + 1]
    /\ UNCHANGED <<globalRng, item, again, answer, selected, graded, aiCall, elabCall,
                   loop, quota>>

\* No payload comes back from the model.
AiModelFails ==
    /\ ai.pc = "model"
    /\ \E kind \in FailureKinds :
       \E seed \in FallbackSeeds(FallbackSkill(ai.domain, ai.skill)) :
            EndInFallback(kind, FALSE, seed, kind \in CountedAsValidationFailure, {})
    /\ UNCHANGED <<globalRng, item, again, answer, selected, graded, aiCall, elabCall,
                   loop, quota>>

\* The model replies with a JSON object; the first loop of _normalize_choices
\* and the padding run.  Slicing choices that are no sequence raises, and the
\* outer except ends the request.
AiModelReplies ==
    /\ ai.pc = "model"
    /\ \E data \in AiReplies :
        LET vals == GetOr(DictGet(data.choices), VList(<< >>))
        IN  IF IsSequence(vals)
            THEN /\ ai' = [ai EXCEPT !.pc = "unique", !.kind = "payload", !.data = data,
                                     !.out = NormalizedChoices(ai.skill, AsList(vals)),
                                     !.i = 1]
                 /\ UNCHANGED metrics
            ELSE \E seed \in FallbackSeeds(FallbackSkill(ai.domain, ai.skill)) :
                    /\ ai' = [ai EXCEPT !.pc = "done", !.kind = "payload", !.data = data,
                                        !.seed = seed,
                                        !.response = fallback_mc(ai.domain, ai.skill, seed)]
                    /\ metrics' = CountFallback(metrics, TRUE, {})
    /\ UNCHANGED <<globalRng, item, again, answer, selected, graded, aiCall, elabCall,
                   loop, quota>>

\* One pass of "for i, s in enumerate(out)": t = s and the first test of
\* "while t in seen".
UniquePass ==
    /\ ai.pc = "unique"
    /\ ai.i <= Len(ai.out)
    /\ IF ai.out[ai.i] \in ai.seen
       THEN ai' = [ai EXCEPT !.pc = "while", !.t = ai.out[ai.i]]
       ELSE ai' = [ai EXCEPT !.seen = @ \cup {ai.out[ai.i]}, !.i = @ + 1,
                             !.t = ai.out[ai.i]]
    /\ UNCHANGED <<globalRng, item, again, answer, selected, graded, aiCall, elabCall,
                   metrics, loop, quota>>

\* One pass of the body of "while t in seen" and the test that follows it.
TweakPass ==
    /\ ai.pc = "while"
    /\ LET t == Tweak(ai.skill, ai.out[ai.i])
       IN  IF t \in ai.seen
           THEN ai' = [ai EXCEPT !.t = t]
           ELSE ai' = [ai EXCEPT !.pc = "unique", !.t = t, !.out[ai.i] = t,
                                 !.seen = @ \cup {t}, !.i = @ + 1]
    /\ UNCHANGED <<globalRng, item, again, answer, selected, graded, aiCall, elabCall,
                   metrics, loop, quota>>

\* AiValidate with the verdict of validate_ai_payload left unread.
AiValidate_ignoring_valid ==
    /\ ai.pc = "unique"
    /\ ai.i > Len(ai.out)
    /\ LET raw_steps == GetOr(DictGet(ai.data.explanation_steps), VList(<< >>))
           data == NormalizedData(ai.data, SubSeq(ai.out, 1, 4),
                                  NormalizeSteps(AsList(raw_steps)))
           res  == validate_ai_payload(ai.domain, ai.skill, data)
       IN  \E seed \in FallbackSeeds(FallbackSkill(ai.domain, ai.skill)) :
             IF ~IsSequence(raw_steps) \/ res.raised
             THEN EndInFallback("payload", FALSE, seed, TRUE, {})
             ELSE IF ResponseRaises(res.cleaned.hints, res.cleaned.diagram)
             THEN /\ ai' = [ai EXCEPT !.pc = "done", !.valid = TRUE, !.seed = seed,
                                      !.response = fallback_mc(ai.domain, ai.skill, seed)]
                  /\ metrics' = CountFallback([metrics EXCEPT !.validated_ok_total = @ + 1],
                                              TRUE, {})
             ELSE /\ ai' = [ai EXCEPT !.pc = "done", !.valid = TRUE,
                                      !.response = ValidatedResponse(ai.skill, res.cleaned)]
                  /\ metrics' = [metrics EXCEPT !.validated_ok_total = @ + 1]
    /\ UNCHANGED <<globalRng, item, again, answer, selected, graded, aiCall, elabCall,
                   loop, quota>>

\* _normalize_choices has returned: correct_index and the steps are
\* normalised, validate_ai_payload decides, and the response is built.
AiValidate ==
    /\ ai.pc = "unique"
    /\ ai.i > Len(ai.out)
    /\ LET raw_steps == GetOr(DictGet(ai.data.explanation_steps), VList(<< >>))
           data == NormalizedData(ai.data, SubSeq(ai.out, 1, 4),
                                  NormalizeSteps(AsList(raw_steps)))
           res  == validate_ai_payload(ai.domain, ai.skill, data)
       IN  \E seed \in FallbackSeeds(FallbackSkill(ai.domain, ai.skill)) :
             IF ~IsSequence(raw_steps) \/ res.raised
             THEN EndInFallback("payload", FALSE, seed, TRUE, {})
             ELSE IF ~res.valid
             THEN EndInFallback("payload", FALSE, seed, TRUE, res.flags)
             ELSE IF ResponseRaises(res.cleaned.hints, res.cleaned.diagram)
             THEN /\ ai' = [ai EXCEPT !.pc = "done", !.valid = TRUE, !.seed = seed,
                                      !.response = fallback_mc(ai.domain, ai.skill, seed)]
                  /\ metrics' = CountFallback([metrics EXCEPT !.validated_ok_total = @ + 1],
                                              TRUE, {})
             ELSE /\ ai' = [ai EXCEPT !.pc = "done", !.valid = TRUE,
                                      !.response = ValidatedResponse(ai.skill, res.cleaned)]
                  /\ metrics' = [metrics EXCEPT !.validated_ok_total = @ + 1]
    /\ UNCHANGED <<globalRng, item, again, answer, selected, graded, aiCall, elabCall,
                   loop, quota>>

NextAi ==
    AiRequest \/ AiModelFails \/ AiModelReplies \/ UniquePass \/ TweakPass \/ AiValidate

SpecAi == Init /\ [][NextAi]_vars

\* The skills and raw lists _normalize_choices is called with on its own:
\* "data.get("choices") or []" is a list, empty when the key is absent.
NormalizeSkills ==
    {"linear_equation_mc", "proportion", "linear_system_2x2", "linear_system_3x3", ""}

RawChoiceLists ==
    {AsList(GetOr(DictGet(c), VList(<< >>))) : c \in {v \in ReplyChoices : v.t # "int"}}
    \cup {VList(<<Digit(1)>>),
          VList(<<Digit(1), Digit(1), Digit(1), Digit(1)>>),
          VList(<<Digit(1), VStr(<<"(", "1", ")", " ", "+", " ", "0">>), Digit(1), Digit(2)>>),
          VList(<<VStr(TripleText(1, 2, 3)), VStr(TripleText(1, 2, 3)),
                  VStr(<<"1", ",", "2", ",", "3">>), VStr(TripleText(2, 3, 4))>>)}

\* _normalize_choices(skill, vals) is called: its first loop and the padding.
NormalizeCall ==
    /\ ai.pc = "idle"
    /\ \E skill \in NormalizeSkills : \E vals \in RawChoiceLists :
        ai' = [NoRequest EXCEPT !.pc = "unique", !.kind = "payload", !.skill = skill,
                                !.data = AiPayload(Missing, vals, Missing, Missing,
                                                   Missing, Missing),
                                !.out = NormalizedChoices(skill, vals), !.i = 1]
    /\ UNCHANGED <<globalRng, item, again, answer, selected, graded, aiCall, elabCall,
                   metrics, loop, quota>>

NextNormalize == NormalizeCall \/ UniquePass \/ TweakPass

\* The thread of the call keeps running.
SpecNormalize ==
    Init /\ [][NextNormalize]_vars /\ WF_vars(UniquePass) /\ WF_vars(TweakPass)

(***************************************************************************)
(* generators.py, generate_linear_system_2x2 step by step: loop is the     *)
(* frame of one call, one action per pass of "while True".  The draws of   *)
(* a pass are any values rng.randint(-5, 5) can give.                      *)
(***************************************************************************)
MaxLoopPasses == 3

\* The values of rng.randint(-5, 5) the passes are run with.
LoopDraws == {-2, 0, 1, 2}

\* The solution is drawn and the loop is entered.
LoopStart ==
    /\ loop.pc \in {"idle", "done"}
    /\ \E x0 \in {-5, 0, 5}, y0 \in {-5, 0, 5} :
        loop' = [NoLoop EXCEPT !.pc = "loop", !.x0 = x0, !.y0 = y0]
    /\ UNCHANGED <<globalRng, item, again, answer, selected, graded, aiCall, elabCall,
                   ai, metrics, quota>>

\* LoopPass with the break taken whatever the determinant is.
LoopPass_breaking_always ==
    /\ loop.pc = "loop"
    /\ \E r1 \in LoopDraws, r2 \in LoopDraws, r3 \in LoopDraws, r4 \in LoopDraws :
        loop' = [loop EXCEPT !.pc = "done",
                             !.a = OrElse(r1, 1), !.b = OrElse(r2, 2),
                             !.c = OrElse(r3, -2), !.d = OrElse(r4, 3),
                             !.passes = Min(@ + 1, MaxLoopPasses)]
    /\ UNCHANGED <<globalRng, item, again, answer, selected, graded, aiCall, elabCall,
                   ai, metrics, quota>>

\* One pass of "while True": four draws, "or" defaults, det, break when det
\* is not 0.  passes counts the passes and stops counting at MaxLoopPasses.
LoopPass ==
    /\ loop.pc = "loop"
    /\ \E r1 \in LoopDraws, r2 \in LoopDraws, r3 \in LoopDraws, r4 \in LoopDraws :
        LET a == OrElse(r1, 1)
            b == OrElse(r2, 2)
            c == OrElse(r3, -2)
            d == OrElse(r4, 3)
            det == a * d - b * c
        IN  loop' = [loop EXCEPT !.pc = IF det # 0 THEN "done" ELSE "loop",
                                 !.a = a, !.b = b, !.c = c, !.d = d,
                                 !.passes = Min(@ + 1, MaxLoopPasses)]
    /\ UNCHANGED <<globalRng, item, again, answer, selected, graded, aiCall, elabCall,
                   ai, metrics, quota>>

NextLoop == LoopStart \/ LoopPass

\* The pass whose draws are kept.  Every pass has draws that are kept, and
\* random.Random does not withhold them for ever: its generator runs through
\* one cycle of all its states, so the draws that follow any state include
\* four that are kept.
KeptPass == LoopPass /\ loop'.pc = "done"

SpecLoop == Init /\ [][NextLoop]_vars /\ WF_vars(KeptPass)

(***************************************************************************)
(* /elaborate, lines 655-678, one action per step a thread can be          *)
(* interrupted after.                                                      *)
(***************************************************************************)
MaxElaborates == 5

OthersUnchanged ==
    UNCHANGED <<globalRng, item, again, answer, selected, graded, aiCall, elabCall,
                ai, metrics, loop>>

Busy(t) == quota.th[t].pc # "idle"

\* A request comes in on a free thread: user_id is worked out.
ElabStart(t) ==
    /\ ~Busy(t)
    /\ quota.started < MaxElaborates
    /\ \E raw \in RawUserIds :
        quota' = [quota EXCEPT !.th[t] = [NoThread EXCEPT !.pc = "hasattr",
                                                          !.user = UserId(raw)],
                               !.started = @ + 1,
                               !.overlapped = @ \/ \E o \in Threads \ {t} : Busy(o)]
    /\ OthersUnchanged

\* if not hasattr(app.state, "_elab_quota")
ElabHasattr(t) ==
    /\ quota.th[t].pc = "hasattr"
    /\ quota' = [quota EXCEPT !.th[t].pc = IF quota.cur = 0 THEN "setattr" ELSE "qb"]
    /\ OthersUnchanged

\* app.state._elab_quota = {}
ElabSetattr(t) ==
    /\ quota.th[t].pc = "setattr"
    /\ quota' = [quota EXCEPT !.made = @ + 1, !.cur = quota.made + 1,
                               !.dicts[quota.made + 1] = NoCounts,
                               !.th[t].pc = "qb"]
    /\ OthersUnchanged

\* qb = app.state._elab_quota
ElabTakeQb(t) ==
    /\ quota.th[t].pc = "qb"
    /\ quota' = [quota EXCEPT !.th[t].qb = quota.cur, !.th[t].pc = "readMin"]
    /\ OthersUnchanged

\* qb.get(min_key, 0)
ElabReadMin(t) ==
    LET me == quota.th[t]
    IN  /\ me.pc = "readMin"
        /\ quota' = [quota EXCEPT !.th[t].tmp = quota.dicts[me.qb][me.user].min,
                                   !.th[t].pc = "writeMin"]
        /\ OthersUnchanged

\* qb[min_key] = ... + 1
ElabWriteMin(t) ==
    LET me == quota.th[t]
    IN  /\ me.pc = "writeMin"
        /\ quota' = [quota EXCEPT !.dicts[me.qb][me.user].min = me.tmp + 1,
                                   !.th[t].pc = "readDay"]
        /\ OthersUnchanged

\* qb.get(day_key, 0)
ElabReadDay(t) ==
    LET me == quota.th[t]
    IN  /\ me.pc = "readDay"
        /\ quota' = [quota EXCEPT !.th[t].tmp = quota.dicts[me.qb][me.user].day,
                                   !.th[t].pc = "writeDay"]
        /\ OthersUnchanged

\* qb[day_key] = ... + 1
ElabWriteDay(t) ==
    LET me == quota.th[t]
    IN  /\ me.pc = "writeDay"
        /\ quota' = [quota EXCEPT !.dicts[me.qb][me.user].day = me.tmp + 1,
                                   !.th[t].pc = "check"]
        /\ OthersUnchanged

\* if qb[min_key] > 3 or qb[day_key] > 20: raise 429; the request goes on
\* to the model otherwise.
ElabCheck(t) ==
    LET me == quota.th[t]
        counts == quota.dicts[me.qb][me.user]
    IN  /\ me.pc = "check"
        /\ IF counts.min > MinuteLimit \/ counts.day > DayLimit
           THEN quota' = [quota EXCEPT !.th[t] = NoThread]
           ELSE quota' = [quota EXCEPT !.th[t] = NoThread,
                                       !.passed[me.user].min = @ + 1,
                                       !.passed[me.user].day = @ + 1]
        /\ OthersUnchanged

NextQuota ==
    \/ \E t \in Threads :
        \/ ElabStart(t) \/ ElabHasattr(t) \/ ElabSetattr(t) \/ ElabTakeQb(t)
        \/ ElabReadMin(t) \/ ElabWriteMin(t) \/ ElabReadDay(t) \/ ElabWriteDay(t)
        \/ ElabCheck(t)

SpecQuota == Init /\ [][NextQuota]_vars

(***************************************************************************)
(* Properties.                                                             *)
(***************************************************************************)
SingleSkills ==
    {"linear_equation", "two_step_equation", "proportion", "exponential_solve",
     "pythagorean_hypotenuse", "pythagorean_leg"}

GradedSPR == item # None /\ graded # None /\ item.format = "SPR"

GradedMC == item # None /\ graded # None /\ item.format = "MC"

Echoes ==
    /\ graded.solution_str = item.solution_str
    /\ graded.explanation_steps = item.explanation_steps

\* The canonical integer of a single-number item.
CanonicalValue(it) == SpInteger(it.solution_str).num

PairStr(x, y) == IntToStr(x) \o <<",">> \o IntToStr(y)

\* C1: round trip.  For each of the eight free-response skills and every
\* seed, grading the solution_str of the generated item with the same seed
\* returns correct = true and the item's solution_str and explanation steps.
C1_RoundTrip ==
    (GradedSPR /\ answer = item.solution_str) => (graded.correct /\ Echoes)

C1_Witness ==
    /\ GradedSPR
    /\ item.skill = "linear_system_2x2"
    /\ answer = item.solution_str
    /\ Head(answer) = "-"
    /\ graded.correct

C3_GradesByCorrectIndex ==
    (GradedMC /\ ~selected.isNone /\ selected.val \in 0..3)
        => (graded.correct <=> selected.val = item.correct_index)

\* C4: for every seed the choices of generate_linear_equation_mc are exactly
\* 4 strings, no two of them equal.
C4_ChoicesDistinct ==
    (item # None /\ item.format = "MC")
        => /\ Len(item.choices) = 4
           /\ \A i, j \in 1..4 : i # j => item.choices[i] # item.choices[j]

\* C5: for every seed the item of generate_linear_equation_mc has
\* correct_index in 0..3 and choices[correct_index] = solution_str, which is
\* the solution_str of generate_linear_equation for the same seed.
C5_CorrectIndexPointsAtSolution ==
    (item # None /\ item.format = "MC")
        => /\ item.correct_index \in 0..3
           /\ item.choices[item.correct_index + 1] = item.solution_str
           /\ item.solution_str = generate_linear_equation(item.seed).solution_str

C5_Witness ==
    /\ item # None
    /\ item.format = "MC"
    /\ item.correct_index = 3
    /\ item.choices[4] = item.solution_str

\* C6: a selected index that is None, negative or not below the number of
\* choices is graded correct = false, with the canonical answer, the
\* explanation steps and the text "No choice selected".
C6_NoSelectionIsIncorrect ==
    (GradedMC /\ (selected.isNone \/ selected.val < 0
                    \/ selected.val >= Len(item.choices)))
        => (~graded.correct /\ Echoes /\ graded.why_selected = NoChoice)

C6_Witness ==
    /\ GradedMC
    /\ selected = Index(-1)
    /\ item.correct_index = 0
    /\ ~graded.correct

\* The answers of the model that are no number (text, empty, blank) or, for a
\* pair skill, have one or three elements.
Malformed(it, ans) ==
    \/ ans \in Garbage
    \/ /\ it.skill \in {"linear_system_2x2", "quadratic_roots"}
       /\ \/ ~Contains(ans, ",") /\ ~Contains(ans, " ")
          \/ Len(Split(ans, ",")) = 3

\* C7: for every free-response grader and every seed, an answer that is no
\* number, or has the wrong number of elements for a pair skill, is graded
\* correct = false with the canonical answer and the steps still returned.
C7_MalformedIsIncorrect ==
    (GradedSPR /\ Malformed(item, answer)) => (~graded.correct /\ Echoes)

C7_Witness ==
    /\ GradedSPR
    /\ item.skill = "quadratic_roots"
    /\ Len(Split(answer, ",")) = 3
    /\ ~graded.correct

\* C8: for every seed with canonical roots a <= b, the answers "a,b" and
\* "b,a" are graded correct = true, and a pair whose set of values differs
\* from {a, b} is graded correct = false.
C8_RootsOrderIndependent ==
    (GradedSPR /\ item.skill = "quadratic_roots")
        => LET a == CanonicalPair(item)[1]
               b == CanonicalPair(item)[2]
           IN  /\ answer \in {PairStr(a, b), PairStr(b, a)} => graded.correct
               /\ answer = PairStr(a, b + 1) => ~graded.correct
               /\ (a # b /\ answer \in {PairStr(a, a), PairStr(b, b)})
                    => ~graded.correct
               /\ answer = NearlyStr(a) \o <<",">> \o IntToStr(b) => ~graded.correct

\* C9: the single-number graders decide by exact equality: an answer that
\* spells the number v is graded correct = true if and only if v is the
\* canonical answer n.  n + k is correct only for k = 0; n.0, (q n)/q and n
\* between blanks are correct; n.5, (q n + 1)/q and n.00...01 are not.
C9_ExactEquality ==
    (GradedSPR /\ item.skill \in SingleSkills)
        => LET n == CanonicalValue(item)
           IN  /\ \A k \in (-MaxOff)..MaxOff :
                    answer = IntToStr(n + k) => (graded.correct <=> k = 0)
               /\ answer = IntToStr(n) \o <<".", "0">> => graded.correct
               /\ answer = IntToStr(n) \o <<".", "5">> => ~graded.correct
               /\ \A q \in 2..MaxDen :
                    /\ answer = IntToStr(q * n) \o <<"/">> \o IntToStr(q)
                         => graded.correct
                    /\ answer = IntToStr(q * n + 1) \o <<"/">> \o IntToStr(q)
                         => ~graded.correct
               /\ answer = <<" ">> \o IntToStr(n) \o <<" ">> => graded.correct
               /\ answer = NearlyStr(n) => ~graded.correct

\* C10: for every seed with canonical solution (x, y), the answers "x,y",
\* "(x,y)" and "x y" are graded correct = true, and "y,x" is graded
\* correct = false whenever x differs from y.
C10_OrderedPair ==
    (GradedSPR /\ item.skill = "linear_system_2x2")
        => LET x == CanonicalPair(item)[1]
               y == CanonicalPair(item)[2]
           IN  /\ answer \in {PairStr(x, y),
                              <<"(">> \o PairStr(x, y) \o <<")">>,
                              IntToStr(x) \o <<" ">> \o IntToStr(y)}
                    => graded.correct
               /\ (x # y /\ answer = PairStr(y, x)) => ~graded.correct

C10_Witness ==
    /\ GradedSPR
    /\ item.skill = "linear_system_2x2"
    /\ CanonicalPair(item)[1] < 0
    /\ answer = IntToStr(CanonicalPair(item)[1]) \o <<" ">>
                    \o IntToStr(CanonicalPair(item)[2])
    /\ graded.correct

(***************************************************************************)
(* Properties of the validators.                                           *)
(***************************************************************************)
AiDone == aiCall # None

AiReturned == AiDone /\ ~aiCall.out.raised

ElabDone == elabCall # None

InSeq(x, seq) == \E i \in DOMAIN seq : seq[i] = x

\* The texts of the model that hold a denylisted command.
HoldsCommand(v) ==
    /\ v.t = "str"
    /\ \/ v.s \in UnsafeTexts
       \/ v.s = Rep("x", MAX_LATEX_LEN) \o InputBad
       \/ v.s = SafeText \o InputBad

\* C11: a payload whose prompt_latex holds a denylisted command, in any
\* letter case and anywhere in the text, gets valid = false, the flag
\* unsafe_latex and the reason "unsafe_latex", whatever the choices, the
\* correct_index and the explanation steps are.
C11_UnsafePromptRejected ==
    (AiReturned /\ HoldsCommand(aiCall.data.prompt_latex))
        => /\ ~aiCall.out.valid
           /\ "unsafe_latex" \in aiCall.out.flags
           /\ InSeq("unsafe_latex", aiCall.out.reasons)

C11_Witness ==
    /\ AiReturned
    /\ aiCall.data.prompt_latex = VStr([i \in DOMAIN InputBad |-> Upper(InputBad[i])])
    /\ aiCall.data.choices = NumericChoices
    /\ aiCall.data.correct_index = VInt(1)
    /\ aiCall.data.explanation_steps = StepsOf(2)
    /\ aiCall.skill = "linear_equation_mc"
    /\ aiCall.out.reasons = <<"unsafe_latex">>

\* A numeral: digits with at most one ".".
IsNumeral(s) ==
    /\ s # << >>
    /\ \A i \in DOMAIN s : IsDigit(s[i]) \/ s[i] = "."
    /\ Count(s, ".") <= 1
    /\ s # <<".">>

\* The payload is well formed: a non-empty safe prompt of at most 3000
\* characters, 4 distinct non-empty numeric choices of at most 120
\* characters, correct_index in 0..3 and 1 to 8 string steps of at most 200
\* characters.
WellFormed(data) ==
    /\ data.prompt_latex.t = "str"
    /\ Len(data.prompt_latex.s) \in 1..MAX_LATEX_LEN
    /\ ~HoldsCommand(data.prompt_latex)
    /\ data.choices.t = "list"
    /\ Len(data.choices.items) = 4
    /\ \A i \in 1..4 :
        /\ data.choices.items[i].t = "str"
        /\ IsNumeral(data.choices.items[i].s)
        /\ Len(data.choices.items[i].s) <= MAX_CHOICE_LEN
    /\ \A i, j \in 1..4 : i # j => data.choices.items[i] # data.choices.items[j]
    /\ data.correct_index.t = "int"
    /\ data.correct_index.n \in 0..3
    /\ data.explanation_steps.t = "list"
    /\ Len(data.explanation_steps.items) \in 1..MAX_STEPS
    /\ \A i \in DOMAIN data.explanation_steps.items :
        /\ data.explanation_steps.items[i].t = "str"
        /\ Len(data.explanation_steps.items[i].s) <= MAX_STEP_LEN

Accepted ==
    /\ ~aiCall.out.raised
    /\ aiCall.out.valid
    /\ aiCall.out.reasons = << >>
    /\ aiCall.out.cleaned.correct_index = aiCall.data.correct_index.n
    /\ aiCall.out.cleaned.choices
         = [i \in 1..4 |-> aiCall.data.choices.items[i].s]

\* C12 as stated: a well-formed payload is accepted, for any skill.
C12_WellFormedAccepted_AnySkill ==
    (AiDone /\ WellFormed(aiCall.data)) => Accepted

\* C12: a well-formed payload is accepted (valid = true, no reasons, cleaned
\* correct_index equal to the input and cleaned choices the 4 input choices)
\* when the skill is not one whose choices are pairs or triples.
C12_WellFormedAccepted ==
    (AiDone /\ WellFormed(aiCall.data) /\ aiCall.skill \notin PairSkills \cup TripleSkills)
        => Accepted

C12_Witness ==
    /\ AiDone
    /\ WellFormed(aiCall.data)
    /\ aiCall.skill = "word_problem"
    /\ aiCall.data.correct_index = VInt(1)
    /\ aiCall.out.valid
    /\ aiCall.out.cleaned.correct_index = 1

\* C13: on every payload on which validate_ai_payload or
\* validate_elaboration_payload returns, reasons is empty if and only if
\* valid is true.
C13_ReasonsEmptyIffValid ==
    /\ AiReturned => (aiCall.out.reasons = << >> <=> aiCall.out.valid)
    /\ ElabDone => (elabCall.out.reasons = << >> <=> elabCall.out.valid)

C13_Witness ==
    /\ ElabDone
    /\ ~elabCall.out.valid
    /\ elabCall.out.reasons = <<"concept_bad", "walkthrough_step">>

\* The fields as validate_ai_payload reads them.
PromptRead == GetOr(DictGet(aiCall.data.prompt_latex), VStr(<< >>))

ChoicesRead == GetOr(DictGet(aiCall.data.choices), VList(<< >>))

StepsRead == GetOr(DictGet(aiCall.data.explanation_steps), VList(<< >>))

IndexRead ==
    IF aiCall.data.correct_index.t = "missing" THEN VInt(-1) ELSE aiCall.data.correct_index

Recorded(code) == InSeq(code, aiCall.out.reasons)

\* The condition of every check, each stated on its own.
PromptEmptyViolated == PromptRead.t # "str" \/ PromptRead.s = << >>

PromptTooLongViolated == PromptRead.t = "str" /\ Len(PromptRead.s) > MAX_LATEX_LEN

UnsafeViolated == HoldsCommand(PromptRead) \/ PromptRead.t # "str"

ChoiceCountViolated == ~(ChoicesRead.t = "list" /\ Len(ChoicesRead.items) = 4)

ChoiceLengthViolated ==
    \E i \in DOMAIN stringify_list(ChoicesRead) :
        Len(stringify_list(ChoicesRead)[i]) \notin 1..MAX_CHOICE_LEN

ChoiceUniqueViolated ==
    Cardinality({stringify_list(ChoicesRead)[i] : i \in DOMAIN stringify_list(ChoicesRead)}) # 4

IndexViolated == ~(ToInt(IndexRead).ok /\ ToInt(IndexRead).n \in 0..3)

StepCountViolated == ~(StepsRead.t = "list" /\ Len(StepsRead.items) \in 1..MAX_STEPS)

StepLengthViolated ==
    /\ StepsRead.t = "list"
    /\ \E i \in DOMAIN StepsRead.items :
        \/ StepsRead.items[i].t # "str"
        \/ Len(StepsRead.items[i].s) > MAX_STEP_LEN

FormatViolated == ~validate_math_formats(aiCall.skill, stringify_list(ChoicesRead))

\* C14: validate_ai_payload does not short-circuit: on every payload on
\* which it returns, the reason code of each of the ten checks is in reasons
\* exactly when the condition of that check is violated, whatever the other
\* checks found.
C14_EveryCheckRecorded ==
    AiReturned =>
        /\ Recorded("prompt_empty") <=> PromptEmptyViolated
        /\ Recorded("prompt_too_long") <=> PromptTooLongViolated
        /\ Recorded("unsafe_latex") <=> UnsafeViolated
        /\ Recorded("choices_count") <=> ChoiceCountViolated
        /\ Recorded("choices_len") <=> ChoiceLengthViolated
        /\ Recorded("choices_unique") <=> ChoiceUniqueViolated
        /\ Recorded("correct_index") <=> IndexViolated
        /\ Recorded("steps_count") <=> StepCountViolated
        /\ Recorded("steps_len") <=> StepLengthViolated
        /\ Recorded("choices_format") <=> FormatViolated

StepHoldsCommand ==
    /\ aiCall.data.explanation_steps.t = "list"
    /\ \E i \in DOMAIN aiCall.data.explanation_steps.items :
        HoldsCommand(aiCall.data.explanation_steps.items[i])

\* C15: a denylisted command anywhere in the prompt or in any entry of
\* explanation_steps makes validate_ai_payload return valid = false with the
\* flag unsafe_latex set.
C15_UnsafeStepRejected ==
    (AiReturned /\ (HoldsCommand(aiCall.data.prompt_latex) \/ StepHoldsCommand))
        => /\ ~aiCall.out.valid
           /\ "unsafe_latex" \in aiCall.out.flags

\* "(a, b)": a parenthesised tuple of exactly two comma-separated entries.
PairShaped(v) ==
    /\ v.t = "str"
    /\ StartsWith(v.s, "(")
    /\ EndsWith(v.s, ")")
    /\ Count(v.s, ",") = 1

\* C16: for the skills linear_system_2x2 and quadratic_roots, a payload of 4
\* choices of which one is not shaped like "(a, b)" gets valid = false and
\* the reason "choices_format".
C16_PairFormatChecked ==
    (/\ AiReturned
     /\ aiCall.skill \in {"linear_system_2x2", "quadratic_roots"}
     /\ aiCall.data.choices.t = "list"
     /\ Len(aiCall.data.choices.items) = 4
     /\ \E i \in 1..4 : ~PairShaped(aiCall.data.choices.items[i]))
        => /\ ~aiCall.out.valid
           /\ Recorded("choices_format")

\* C17: the validators never raise: for a payload whose fields have any
\* type both return a result, with valid = false and reasons for a choices,
\* explanation_steps or walkthrough value that is not a list.
C17_NeverRaises ==
    /\ AiDone =>
        /\ ~aiCall.out.raised
        /\ (\/ (Truthy(aiCall.data.choices) /\ aiCall.data.choices.t # "list")
            \/ (Truthy(aiCall.data.explanation_steps)
                    /\ aiCall.data.explanation_steps.t # "list"))
            => (~aiCall.out.valid /\ aiCall.out.reasons # << >>)
    /\ ElabDone =>
        /\ ~elabCall.out.raised
        /\ (Truthy(elabCall.data.walkthrough) /\ elabCall.data.walkthrough.t # "list")
            => (~elabCall.out.valid /\ elabCall.out.reasons # << >>)

\* The call without its diagram.
WithoutDiagram ==
    validate_ai_payload("Algebra", aiCall.skill, [aiCall.data EXCEPT !.diagram = Missing])

\* A right_triangle whose sides are 3, 4 and 5 once read as integers.
CoercibleDiagram ==
    Diagram(RightTriangle, VStr(<<"3">>), VFloat(<<"4", ".", "0">>, 4), VInt(5), Missing)

\* The diagrams that are dropped: a right_triangle with a missing, zero,
\* negative or unreadable side, another type, no type, or no dict.
DroppedDiagrams ==
    Diagrams \ {GoodDiagram, CoercibleDiagram,
                Diagram(VStr(<<"triangle">>), VInt(3), Missing, Missing, Labels)}

\* C18: the diagram never decides: the call returns the same valid, reasons
\* and flags as the call without the diagram; a right_triangle with three
\* positive sides that int() reads is in cleaned with a, b, c as integers,
\* and a right_triangle with a missing, non-positive or unreadable side, or
\* a diagram of another type or shape, gives cleaned["diagram"] = None.
C18_DiagramNeverDecides ==
    AiDone =>
        /\ aiCall.out.raised = WithoutDiagram.raised
        /\ aiCall.out.valid = WithoutDiagram.valid
        /\ aiCall.out.reasons = WithoutDiagram.reasons
        /\ aiCall.out.flags = WithoutDiagram.flags
        /\ (~aiCall.out.raised /\ aiCall.data.diagram = GoodDiagram)
            => aiCall.out.cleaned.diagram = GoodDiagram
        /\ (~aiCall.out.raised /\ aiCall.data.diagram = CoercibleDiagram)
            => aiCall.out.cleaned.diagram
                 = Diagram(RightTriangle, VInt(3), VInt(4), VInt(5), VDict(<< >>))
        /\ (~aiCall.out.raised /\ aiCall.data.diagram \in DroppedDiagrams)
            => aiCall.out.cleaned.diagram = VNone

C18_Witness ==
    /\ AiReturned
    /\ aiCall.data.diagram
         = Diagram(RightTriangle, VInt(3), VInt(4), VStr(<<"x">>), Labels)
    /\ aiCall.out.valid
    /\ aiCall.out.cleaned.diagram = VNone

\* C19: whenever validate_ai_payload returns valid = true, the cleaned
\* payload keeps every cap: a non-empty prompt of at most 3000 characters
\* without a denylisted command, exactly 4 distinct choices of 1 to 120
\* characters, correct_index in 0..3, and 1 to 8 steps of at most 200
\* characters.
C19_CleanedWithinCaps ==
    (AiReturned /\ aiCall.out.valid) =>
        /\ Len(aiCall.out.cleaned.prompt_latex) \in 1..3000
        /\ ~HoldsCommand(VStr(aiCall.out.cleaned.prompt_latex))
        /\ Len(aiCall.out.cleaned.choices) = 4
        /\ \A i \in 1..4 : Len(aiCall.out.cleaned.choices[i]) \in 1..120
        /\ \A i, j \in 1..4 :
            i # j => aiCall.out.cleaned.choices[i] # aiCall.out.cleaned.choices[j]
        /\ aiCall.out.cleaned.correct_index \in 0..3
        /\ Len(aiCall.out.cleaned.explanation_steps) \in 1..8
        /\ \A i \in DOMAIN aiCall.out.cleaned.explanation_steps :
            Len(aiCall.out.cleaned.explanation_steps[i]) <= 200

C19_Witness ==
    /\ AiReturned
    /\ aiCall.out.valid
    /\ aiCall.out.cleaned.prompt_latex = Rep("x", 3000)
    /\ aiCall.out.cleaned.correct_index = 1

\* A text field passes: absent (not truthy), or a string of 1 to 600
\* characters without a denylisted command.
TextPasses(v) ==
    \/ ~Truthy(v)
    \/ /\ v.t = "str"
       /\ Len(v.s) \in 1..600
       /\ ~HoldsCommand(v)

TextsPass ==
    /\ TextPasses(elabCall.data.concept)
    /\ TextPasses(elabCall.data.plan)
    /\ TextPasses(elabCall.data.quick_check)
    /\ TextPasses(elabCall.data.common_mistake)

\* A walkthrough entry passes: a string of at most 220 characters without a
\* denylisted command.
EntryPasses(v) == v.t = "str" /\ Len(v.s) <= 220 /\ ~HoldsCommand(v)

\* A list of at most 8 entries that all pass.
WalkthroughPasses(w) ==
    /\ w.t = "list"
    /\ Len(w.items) <= 8
    /\ \A i \in DOMAIN w.items : EntryPasses(w.items[i])

\* C20 as stated: valid = true if and only if every truthy text field passes
\* and walkthrough is a list of at most 8 passing entries; cleaned
\* walkthrough is then the list of the entries.
C20_ValidIffFieldsPass_ListRequired ==
    ElabDone =>
        /\ elabCall.out.valid
            <=> (TextsPass /\ WalkthroughPasses(elabCall.data.walkthrough))
        /\ elabCall.out.valid
            => elabCall.out.cleaned.walkthrough = VList(elabCall.data.walkthrough.items)

\* C20: validate_elaboration_payload returns valid = true if and only if
\* every truthy field among concept, plan, quick_check and common_mistake
\* is a string of 1 to 600 characters without a denylisted command and
\* walkthrough, when it is truthy, is a list of at most 8 entries, each a
\* string of at most 220 characters without a denylisted command; for a list
\* of at most 8 entries cleaned walkthrough holds the entries that passed, in
\* their input order, and it is None when no entry passed or walkthrough is
\* not truthy.
C20_ValidIffFieldsPass ==
    ElabDone =>
        /\ elabCall.out.valid
            <=> /\ TextsPass
                /\ Truthy(elabCall.data.walkthrough)
                    => WalkthroughPasses(elabCall.data.walkthrough)
        /\ (/\ elabCall.data.walkthrough.t = "list"
            /\ Len(elabCall.data.walkthrough.items) <= 8
            /\ \E i \in DOMAIN elabCall.data.walkthrough.items :
                    EntryPasses(elabCall.data.walkthrough.items[i]))
            => elabCall.out.cleaned.walkthrough
                 = VList(SelectSeq(elabCall.data.walkthrough.items, EntryPasses))
        /\ (\/ ~Truthy(elabCall.data.walkthrough)
            \/ /\ elabCall.data.walkthrough.t = "list"
               /\ \A i \in DOMAIN elabCall.data.walkthrough.items :
                    ~EntryPasses(elabCall.data.walkthrough.items[i]))
            => elabCall.out.cleaned.walkthrough = VNone

C20_Witness ==
    /\ ElabDone
    /\ elabCall.data.walkthrough = VList(<< >>)
    /\ elabCall.data.concept = VStr(SafeText)
    /\ elabCall.out.valid
    /\ elabCall.out.cleaned.walkthrough = VNone

\* A text of cleaned that failed the unsafe-markup check or its length cap.
FailedText(text, cap) == HoldsCommand(VStr(text)) \/ Len(text) > cap

CleanedTextFailed(v) == v.t = "str" /\ FailedText(v.s, ELAB_MAX_TEXT)

\* C22: cleaned holds only what passed: for every payload, valid or not, no
\* text of cleaned (prompt_latex, choices, explanation_steps; concept, plan,
\* quick_check, common_mistake, walkthrough entries) failed the unsafe-markup
\* check or its length cap.
C22_CleanedHoldsOnlyPassingText ==
    /\ AiReturned =>
        /\ ~FailedText(aiCall.out.cleaned.prompt_latex, MAX_LATEX_LEN)
        /\ \A i \in DOMAIN aiCall.out.cleaned.choices :
            ~FailedText(aiCall.out.cleaned.choices[i], MAX_CHOICE_LEN)
        /\ \A i \in DOMAIN aiCall.out.cleaned.explanation_steps :
            ~FailedText(aiCall.out.cleaned.explanation_steps[i], MAX_STEP_LEN)
    /\ ElabDone =>
        /\ ~CleanedTextFailed(elabCall.out.cleaned.concept)
        /\ ~CleanedTextFailed(elabCall.out.cleaned.plan)
        /\ ~CleanedTextFailed(elabCall.out.cleaned.quick_check)
        /\ ~CleanedTextFailed(elabCall.out.cleaned.common_mistake)
        /\ \A i \in DOMAIN elabCall.out.cleaned.walkthrough.items :
            ~FailedText(elabCall.out.cleaned.walkthrough.items[i].s,
                        ELAB_MAX_WALKTHROUGH_STEP_LEN)

(***************************************************************************)
(* The numbers printed in a text: a run of digit characters is one number, *)
(* negative when a "-" character stands right before it.                   *)
(***************************************************************************)
NumStarts(text) ==
    {i \in DOMAIN text : IsDigit(text[i]) /\ (i = 1 \/ ~IsDigit(text[i - 1]))}

NumEnd(text, i) ==
    CHOOSE j \in i..Len(text) :
        /\ \A k \in i..j : IsDigit(text[k])
        /\ (j = Len(text) \/ ~IsDigit(text[j + 1]))

NumAt(text, i) ==
    LET n == DigitsVal(SubSeq(text, i, NumEnd(text, i)))
    IN  IF i > 1 /\ text[i - 1] = "-" THEN -n ELSE n

Numbers(text) ==
    LET starts == NumStarts(text)
    IN  [k \in 1..Cardinality(starts) |->
            NumAt(text, CHOOSE i \in starts : Cardinality({j \in starts : j < i}) = k - 1)]

\* The value printed from the k-th number of a text on, as a fraction: an
\* int "n", a whole float "n.0", or a float written as the fraction n/d.
Shown(text, k) ==
    LET nums == Numbers(text)
    IN  IF InSeq("float(", text) THEN [num |-> nums[k], den |-> nums[k + 1]]
        ELSE [num |-> nums[k], den |-> 1]

IsPowerOfTwo(n) == \E e \in 0..8 : n = Pow(2, e)

\* A printed value is the value it is written as: an int, or a float whose
\* fraction is binary.  The float nearest to 1/3 or 3/5 is another number.
ExactlyShown(text, k) == IsPowerOfTwo(Shown(text, k).den)

\* v = b^x0 for a shown fraction v and an exponent of either sign.
IsPower(v, b, x0) ==
    IF x0 >= 0 THEN v.num = Pow(b, x0) * v.den ELSE v.num * Pow(b, -x0) = v.den

Generated == item # None

\* The steps of a generated item, each as the list of the numbers it prints.
StepNumbers == [k \in DOMAIN item.explanation_steps |-> Numbers(item.explanation_steps[k])]

PromptNumbers == Numbers(item.prompt_latex)

LinearStepsExact ==
    LET p == PromptNumbers
        s == StepNumbers
    IN  /\ s[1] = <<p[1], p[1] * p[2], p[3]>>
        /\ s[2] = <<p[1] * p[2], p[1], p[3] - p[1] * p[2]>>
        /\ s[3][1] = p[1]
        /\ p[1] * s[3][2] = p[3] - p[1] * p[2]
        /\ s[3][2] = CanonicalValue(item)

TwoStepStepsExact ==
    LET p == PromptNumbers
        s == StepNumbers
    IN  /\ s[1] = <<p[2], p[1], p[3] - p[2]>>
        /\ s[2][1] = p[1]
        /\ p[1] * s[2][2] = p[3] - p[2]
        /\ s[2][2] = CanonicalValue(item)

ProportionStepsExact ==
    LET p == PromptNumbers
        s == StepNumbers
    IN  /\ s[1] = <<p[1], p[3], p[2]>>
        /\ s[2] = <<p[1] * p[3], p[2]>>
        /\ s[3][1] = p[2]
        /\ p[2] * s[3][2] = p[1] * p[3]
        /\ s[3][2] = CanonicalValue(item)

SystemStepsExact ==
    LET p == PromptNumbers
        s == StepNumbers
    IN  /\ s[2] = <<p[1], p[5], p[2], p[4], p[1] * p[5] - p[2] * p[4]>>
        /\ s[3] = CanonicalPair(item)

QuadraticStepsExact ==
    LET s == StepNumbers
    IN  /\ {s[1][1], s[1][2]} = {CanonicalPair(item)[1], CanonicalPair(item)[2]}
        /\ {s[2][1], s[2][2]} = {CanonicalPair(item)[1], CanonicalPair(item)[2]}

\* exponential_solve: c = a . b^x0 exactly, the first step shows c / a = b^x0
\* and the second the same value and x0.
ExponentialStepsExact ==
    LET p  == PromptNumbers
        a  == p[1]
        b  == p[2]
        x0 == CanonicalValue(item)
        c  == Shown(item.prompt_latex, 3)
        s1 == item.explanation_steps[1]
        s2 == item.explanation_steps[2]
        q1 == Shown(s1, 3)
        q2 == Shown(s2, 3)
    IN  /\ ExactlyShown(item.prompt_latex, 3)
        /\ IsPower([num |-> c.num, den |-> c.den * a], b, x0)
        /\ Numbers(s1)[1] = a /\ Numbers(s1)[2] = b
        /\ q1.num * c.den * a = c.num * q1.den
        /\ IsPower(q1, b, x0)
        /\ IsPower(q2, b, x0)
        /\ Numbers(s2)[Len(Numbers(s2))] = x0

HypotenuseStepsExact ==
    LET p == PromptNumbers
        s == StepNumbers
    IN  /\ s[1] = <<p[1], p[2]>>
        /\ s[2] = <<p[1] * p[1], p[2] * p[2], p[1] * p[1] + p[2] * p[2]>>
        /\ s[3][1] * s[3][1] = s[2][3]
        /\ s[3][1] = CanonicalValue(item)

LegStepsExact ==
    LET p == PromptNumbers
        s == StepNumbers
    IN  /\ s[1] = <<p[1], p[2]>>
        /\ s[2] = <<p[1] * p[1], p[2] * p[2], p[1] * p[1] - p[2] * p[2]>>
        /\ s[3][1] * s[3][1] = s[2][3]
        /\ s[3][1] = CanonicalValue(item)

StepsExact ==
    CASE item.skill \in {"linear_equation", "linear_equation_mc"} -> LinearStepsExact
      [] item.skill = "two_step_equation"      -> TwoStepStepsExact
      [] item.skill = "proportion"             -> ProportionStepsExact
      [] item.skill = "linear_system_2x2"      -> SystemStepsExact
      [] item.skill = "quadratic_roots"        -> QuadraticStepsExact
      [] item.skill = "exponential_solve"      -> ExponentialStepsExact
      [] item.skill = "pythagorean_hypotenuse" -> HypotenuseStepsExact
      [] item.skill = "pythagorean_leg"        -> LegStepsExact

\* C25: explanation steps show exact values.  For every generated item each
\* number printed in a step is the exact result of the operation the step
\* describes and the last step ends in the canonical answer; for
\* exponential_solve the right-hand side is a . b^x0 exactly and the step
\* "Divide both sides by a" shows b^x0, for exponents of either sign.
C25_StepsShowExactValues == Generated => StepsExact

\* The same, for the items whose exponent is not negative.
C25_HoldsForNonNegativeExponents ==
    (Generated /\ (item.skill = "exponential_solve" => CanonicalValue(item) >= 0))
        => StepsExact

LinearSolved ==
    LET p == PromptNumbers
    IN  p[1] * (CanonicalValue(item) + p[2]) = p[3]

TwoStepSolved ==
    LET p == PromptNumbers
    IN  p[1] * CanonicalValue(item) + p[2] = p[3]

ProportionSolved ==
    LET p == PromptNumbers
    IN  p[1] * p[3] = p[2] * CanonicalValue(item)

\* a x + b y = e and c x + d y = f; one solution only: a d - b c is not 0.
SystemSolved ==
    LET p == PromptNumbers
        x == CanonicalPair(item)[1]
        y == CanonicalPair(item)[2]
    IN  /\ p[1] * x + p[2] * y = p[3]
        /\ p[4] * x + p[5] * y = p[6]
        /\ p[1] * p[5] - p[2] * p[4] # 0
        /\ \A k \in {1, 2, 4, 5} : p[k] # 0

QuadraticSolved ==
    LET p == PromptNumbers
    IN  \A k \in {1, 2} :
            LET r == CanonicalPair(item)[k]
            IN  p[1] * r * r + p[2] * r + p[3] = 0

\* a . b^x0 = c, with c the number the program holds: an int for x0 >= 0 and
\* for x0 < 0 the float of a . b^x0, whose decimal expansion is what is printed.
ExponentialSolved ==
    LET p == PromptNumbers
        c == Shown(item.prompt_latex, 3)
    IN  IsPower([num |-> c.num, den |-> c.den * p[1]], p[2], CanonicalValue(item))

HypotenuseSolved ==
    LET p == PromptNumbers
        h == CanonicalValue(item)
    IN  /\ p[1] * p[1] + p[2] * p[2] = h * h
        /\ h > 0
        /\ item.diagram.a = p[1] /\ item.diagram.b = p[2] /\ item.diagram.c = h

LegSolved ==
    LET p == PromptNumbers
        l == CanonicalValue(item)
    IN  /\ p[2] * p[2] + l * l = p[1] * p[1]
        /\ l > 0
        /\ item.diagram.a = p[2] /\ item.diagram.b = l /\ item.diagram.c = p[1]

Solved ==
    CASE item.skill \in {"linear_equation", "linear_equation_mc"} -> LinearSolved
      [] item.skill = "two_step_equation"      -> TwoStepSolved
      [] item.skill = "proportion"             -> ProportionSolved
      [] item.skill = "linear_system_2x2"      -> SystemSolved
      [] item.skill = "quadratic_roots"        -> QuadraticSolved
      [] item.skill = "exponential_solve"      -> ExponentialSolved
      [] item.skill = "pythagorean_hypotenuse" -> HypotenuseSolved
      [] item.skill = "pythagorean_leg"        -> LegSolved

GeneratedMC == item # None /\ item.format = "MC"

\* The rationale of the strategy behind each position of the shuffled
\* options: the labels of <<sol_val, d1, d2, d3>> shuffled by the same draws.
StrategyRationales(it) ==
    shuffle(Random(it.seed.plus999), 3, <<WhyCorrect, WhySlip, WhySign, WhyDivision>>)

SelectedAChoice == ~selected.isNone /\ selected.val \in 0..(Len(item.choices) - 1)

\* C26: rationales match the choices.  why_incorrect has one entry per
\* choice, entry i is the "Correct" rationale exactly when i = correct_index,
\* every other entry is the rationale of the strategy that produced
\* choices[i], and an answer graded incorrect is returned the rationale of
\* the error behind the selected choice.
C26_RationalesMatchChoices ==
    /\ GeneratedMC =>
        /\ Len(item.why_incorrect) = Len(item.choices)
        /\ \A i \in DOMAIN item.why_incorrect :
            /\ item.why_incorrect[i] = WhyCorrect <=> i - 1 = item.correct_index
            /\ i - 1 # item.correct_index =>
                item.why_incorrect[i] = StrategyRationales(item)[i]
    /\ (GradedMC /\ SelectedAChoice /\ ~graded.correct) =>
        /\ graded.why_selected # WhyCorrect
        /\ graded.why_selected = StrategyRationales(item)[selected.val + 1]

\* The same for the items whose four options are distinct numbers, graded
\* on a selection other than index 0.
C26_HoldsForDistinctOptions ==
    /\ (GeneratedMC /\ Cardinality({item.choices[i] : i \in DOMAIN item.choices}) = 4) =>
        /\ Len(item.why_incorrect) = Len(item.choices)
        /\ \A i \in DOMAIN item.why_incorrect :
            /\ item.why_incorrect[i] = WhyCorrect <=> i - 1 = item.correct_index
            /\ i - 1 # item.correct_index =>
                item.why_incorrect[i] = StrategyRationales(item)[i]
    /\ (GradedMC /\ SelectedAChoice /\ ~graded.correct
            /\ Cardinality({item.choices[i] : i \in DOMAIN item.choices}) = 4
            /\ item.correct_index # 0) =>
        /\ graded.why_selected # WhyCorrect
        /\ graded.why_selected = StrategyRationales(item)[selected.val + 1]

\* _normalize_choices is running on the choices of the model's reply.
Normalizing == ai.pc \in {"unique", "while"} /\ ai.i <= Len(ai.out)

\* _normalize_choices has returned out[:4].
Normalized == ai.kind = "payload" /\ ai.i > Len(ai.out) /\ ai.out # << >>

Responded == ai.pc = "done"

\* C27: choice normalisation terminates.  For every skill and every list of
\* raw choices (empty, shorter than 4, or holding a value two, three or four
\* times) _normalize_choices returns, what it returns is 4 mutually distinct
\* strings, so that the request can go on to a response.
C27_NormalizeChoicesTerminates ==
    /\ [](Normalized =>
            /\ Len(ai.out) = 4
            /\ Cardinality({ai.out[k] : k \in DOMAIN ai.out}) = 4)
    /\ (Normalizing ~> Normalized)

\* What is returned, when the loop ends, is 4 mutually distinct strings.
C27_DistinctWhenReturned ==
    Normalized =>
        /\ Len(ai.out) = 4
        /\ Cardinality({ai.out[k] : k \in DOMAIN ai.out}) = 4

\* The loop has computed a t that is in seen: the next pass computes the
\* same t from the same s.
Spinning == ai.pc = "while" /\ ai.t = Tweak(ai.skill, ai.out[ai.i]) /\ ai.t \in ai.seen

(***************************************************************************)
(* C29: after any number of sequential /generate_ai requests have          *)
(* completed, ai_calls_total = validated_ok_total + fallback_total: every  *)
(* request ends in exactly one of the two outcomes.                        *)
(***************************************************************************)
C29_CallsAreOkPlusFallback ==
    ai.pc \in {"idle", "done"} =>
        metrics.ai_calls_total = metrics.validated_ok_total + metrics.fallback_total

\* No completed request is left out of both counters.
C29_EveryCallCounted ==
    ai.pc \in {"idle", "done"} =>
        metrics.ai_calls_total <= metrics.validated_ok_total + metrics.fallback_total

(***************************************************************************)
(* C28: every /generate_ai response, the validated model item or a         *)
(* fallback item of _fallback_mc alike, has exactly 4 mutually distinct    *)
(* choices and a correct_index in [0, 4) whose choice is the canonical     *)
(* answer of the item.                                                     *)
(***************************************************************************)
Answered == ai.pc = "done"

FromFallback == Answered /\ ai.seed # NoSeed

FromModel == Answered /\ ai.seed = NoSeed

FourDistinct(choices) ==
    Len(choices) = 4 /\ Cardinality({choices[k] : k \in DOMAIN choices}) = 4

\* The choice shown and a solution_str name the same answer: "(x, y)" is the
\* rendering of "x,y".
Renders(shown, solution) ==
    Remove(Remove(Remove(shown, "("), ")"), " ") = Remove(solution, " ")

FallbackItem == Generate(FallbackSkill(ai.domain, ai.skill), ai.seed)

C28_FourDistinctChoices ==
    Answered =>
        /\ FourDistinct(ai.response.choices)
        /\ ai.response.correct_index \in 0..3
        /\ FromFallback =>
             Renders(ai.response.choices[ai.response.correct_index + 1],
                     FallbackItem.solution_str)

\* Four choices and an index in range, whatever the path.
C28_FourChoicesIndexInRange ==
    Answered => Len(ai.response.choices) = 4 /\ ai.response.correct_index \in 0..3

\* The choices of a fallback item of the Pythagorean, exponential and
\* proportion branches are distinct, and those branches and the two pair
\* branches put the canonical answer at correct_index.
C28_FallbackBranchesHold ==
    FromFallback /\ FallbackSkill(ai.domain, ai.skill) # "linear_equation_mc" =>
        /\ Renders(ai.response.choices[ai.response.correct_index + 1],
                   FallbackItem.solution_str)
        /\ FallbackSkill(ai.domain, ai.skill) \notin PairSkills =>
             FourDistinct(ai.response.choices)

\* A validated model item whose choices are not distinct.
C28_ModelItemDistinct == FromModel => FourDistinct(ai.response.choices)

(***************************************************************************)
(* C21: in every execution of /generate_ai the response carries content of *)
(* the model only if validate_ai_payload returned valid = true for the     *)
(* payload; when validation returns false, or the model is unavailable,    *)
(* times out, raises, or replies with nothing or with text that does not   *)
(* parse, the response is the item _fallback_mc builds from a seeded       *)
(* generator and holds none of the model's text.                           *)
(***************************************************************************)
Validation ==
    validate_ai_payload(ai.domain, ai.skill,
        NormalizedData(ai.data, SubSeq(ai.out, 1, 4),
            NormalizeSteps(AsList(GetOr(DictGet(ai.data.explanation_steps),
                                        VList(<< >>))))))

\* validate_ai_payload was called on the payload of the request and
\* returned valid = true.
ReturnedValid ==
    /\ ai.kind = "payload"
    /\ ai.out # << >>
    /\ ai.i > Len(ai.out)
    /\ IsSequence(GetOr(DictGet(ai.data.explanation_steps), VList(<< >>)))
    /\ ~Validation.raised
    /\ Validation.valid

C21_FallbackOnGuardrailFailure ==
    Answered =>
        /\ FromModel =>
             /\ ReturnedValid
             /\ ai.response = ValidatedResponse(ai.skill, Validation.cleaned)
        /\ ~ReturnedValid =>
             /\ FromFallback
             /\ ai.response = fallback_mc(ai.domain, ai.skill, ai.seed)

\* A payload that validate_ai_payload turned down was answered.
C21_Witness ==
    /\ Answered
    /\ ai.kind = "payload"
    /\ ai.out # << >>
    /\ ~Validation.raised
    /\ ~Validation.valid
    /\ ai.response = fallback_mc(ai.domain, ai.skill, ai.seed)

(***************************************************************************)
(* C23: generate_linear_system_2x2 terminates for every seed: the loop     *)
(* that resamples the coefficients runs a finite number of passes and      *)
(* exits with a, b, c, d all nonzero and a*d - b*c nonzero; the generator  *)
(* returns an item and neither raises nor spins.                           *)
(***************************************************************************)
InLoop == loop.pc = "loop"

LoopExited == loop.pc = "done"

ExitedWell ==
    /\ loop.a # 0 /\ loop.b # 0 /\ loop.c # 0 /\ loop.d # 0
    /\ loop.a * loop.d - loop.b * loop.c # 0

C30_RateLimitHolds ==
    \A u \in UserKeys :
        /\ quota.passed[u].min <= MinuteLimit
        /\ quota.passed[u].day <= DayLimit

\* With one request in the handler at a time the limit holds.
C30_HoldsOneAtATime ==
    ~quota.overlapped =>
        \A u \in UserKeys :
            /\ quota.passed[u].min <= MinuteLimit
            /\ quota.passed[u].day <= DayLimit

====
